---- MODULE Spec2Model ----
(***************************************************************************)
(* Model of the LLMPaperReader server (src/server/src/index.ts): the cover *)
(* generation coordinator, the index store with its atomic writer, and the *)
(* document directory resolver.                                            *)
(*                                                                         *)
(* The server is one Node.js process.  A callback of the event loop (a     *)
(* file-system completion, a child-process event, a timer) runs to its end *)
(* and the promise continuations it queued (the microtask queue) are then  *)
(* drained, in FIFO order, before the next callback starts.  The model     *)
(* keeps that queue explicitly (microtasks): the callbacks are the actions *)
(* guarded by Idle, the continuations are the Run... actions, which take   *)
(* the head of the queue.                                                  *)
(***************************************************************************)
EXTENDS Integers, Sequences, FiniteSets, TLC

VARIABLES
  \* ---- cover generation coordinator (index.ts 424-495)
  maxConcurrency,     \* COVERGEN_MAX_CONCURRENCY, fixed at start-up from the environment
  covergenAvailable,  \* the interpreter (COVERGEN_PYTHON) and COVERGEN_SCRIPT were found
  covergenFailures,   \* id -> ms timestamp to retry after (0: no entry)
  covergenInFlight,   \* id -> job in flight (NoJob: no entry)
  covergenActive,     \* slots in use
  covergenWaiters,    \* FIFO of jobs blocked in covergenAcquire
  jobs,               \* job -> its position, renderer process and promise
  nJobs,              \* jobs created so far (callers: the calls a job was returned to)
  microtasks,         \* pending promise continuations, FIFO
  now,                \* Date.now()
  nTicks,             \* clock advances so far
  handlers,           \* GET /papers/:id/cover requests
  nHandlers,          \* requests received so far
  sent,               \* the responses sent so far, as a set
  docs,               \* ids whose directory holds a paper.pdf
  coverFile,          \* id -> state of <papers>/<id>/cover.png
  \* ---- index store (index.ts 585-627) and its writers (817-928)
  indexFile,          \* content of INDEX_FILE: Absent, or the sequence of record ids
  tmpFile,            \* content of INDEX_FILE + ".tmp": Absent, Partial, or a sequence
  indexWriteChain,    \* the promise at the tail of the chain (the ticket of the last caller)
  released,           \* the tickets whose promise is resolved
  ops,                \* index mutations (calls of withIndexLock), in call order
  nOps,               \* calls of withIndexLock so far
  nextId,             \* ids handed out by crypto.randomUUID so far
  faults,             \* file-system failures so far
  applied,            \* the mutations that returned without error, applied in lock order
  \* ---- document directories and the responses of POST and DELETE (index.ts 817-928)
  dirs,               \* id -> the document directory <papers>/<id>: NoDir, or its files
  responses,          \* the responses sent to POST /papers and DELETE /papers/:id
  \* ---- the secondary store (index.ts 401-405, 629-643, 675-703)
  remoteDataDir,      \* REMOTE_DATA_DIR: NoRemote when the variable is not set
  remoteIndex,        \* content of REMOTE_INDEX_FILE
  mirrors,            \* per index mutation: its mirrorToRemote / removeRemotePaper call
  \* ---- id check and path resolver (index.ts 518-520, 654-662) and their callers
  reqId,              \* the id of the request, a string as a sequence of characters
  called,             \* what was called with it: resolvePaperDir itself, or a route
  answer,             \* "pending", "rejected", "resolved", "InvalidPath", "caught"
  touched,            \* the document directory the call works under, NoPath if none
  \* ---- GET /papers (index.ts 738-741)
  listed,             \* the response to the listing request, NotListed before it
  \* ---- the tags of an upload (index.ts 848-856)
  rawTags,            \* req.body.tags, a string as a sequence of characters
  tags,               \* the tags of the record, once computed
  \* ---- the placeholder test (index.ts 522-548)
  probe,              \* what is found at the path isPlaceholderCover is called with
  verdict,            \* what isPlaceholderCover returned, once called
  \* ---- the uploaded temporary files (index.ts 705-712, 817-910)
  tmpDir,             \* the files in TMP_DIR: upload number and field
  nUploads,           \* POST /papers requests received so far
  posts,              \* upload number -> how the request went
  \* ---- the temporary file of the secondary index (index.ts 611-623, 640-643)
  remoteTmp,          \* content of REMOTE_INDEX_FILE + ".tmp"
  \* ---- the seed import (import-seeds.js 51-118)
  seedDirs,           \* SEED_DIRS: per directory, missing or what readdirSync returns
  seedIndex,          \* content of INDEX_FILE as the import reads and writes it
  nRuns,              \* runs of the import so far
  nSeedIds            \* ids handed out to imported documents so far

coverVars == <<maxConcurrency, covergenAvailable, covergenFailures, covergenInFlight, covergenActive,
               covergenWaiters, jobs, nJobs, microtasks, now, nTicks, handlers,
               nHandlers, sent, docs, coverFile>>

indexVars == <<indexFile, tmpFile, indexWriteChain, released, ops, nOps, nextId, faults,
               applied>>

pathVars == <<reqId, called, answer, touched>>

storeVars == <<dirs, responses>>

remoteVars == <<remoteDataDir, remoteIndex, mirrors>>

readVars == <<listed>>

tagVars == <<rawTags, tags>>

pngVars == <<probe, verdict>>

uploadVars == <<tmpDir, nUploads, posts>>

secondaryVars == <<remoteTmp>>

importVars == <<seedDirs, seedIndex, nRuns, nSeedIds>>

auxVars == <<tagVars, pngVars, uploadVars, secondaryVars, importVars>>

vars == <<coverVars, indexVars, pathVars, storeVars, remoteVars, readVars, auxVars>>

\* ---------------------------------------------------------------- bounds
NumIds == 3
MaxCalls == 3
MaxTicks == 1
MaxOps == 4
MaxFaults == 2
MaxMirrors == 3
MaxRecords == 2
MaxIdLen == 3
MaxRequests == 2
MaxTagLen == 4
MaxTags == 13
MaxFileLen == 30
MaxUploads == 2
MaxSeedFiles == 2
MaxRuns == 2

\* ---------------------------------------------------------------- constants
COVERGEN_DEFAULT_CONCURRENCY == 2
COVERGEN_TIMEOUT_MS == 25000
COVERGEN_BACKOFF_MS == 10 * 60 * 1000
TAG_LIMIT == 12

Ids == 1..NumIds
Ghost == 0   \* a shape-valid id that has no document directory
AllIds == Ids \cup {Ghost}
JobIds == 1..MaxCalls
HandlerIds == 1..MaxCalls
NoJob == 0

NoJobRec == [id |-> 0, pc |-> "none", proc |-> "none", spawnedAt |-> 0,
             settled |-> "pending", promise |-> "pending", callers |-> 0]
NoHandler == [id |-> 0, pc |-> "none", job |-> NoJob]

\* a request that was answered
Responded == [NoHandler EXCEPT !.pc = "responded"]

\* a job that is over: only its promise and a killed process not yet reaped are kept
Finished(job, promise) == [NoJobRec EXCEPT !.pc = "done", !.promise = promise,
                                           !.proc = IF job.proc = "killed"
                                                    THEN "killed" ELSE "none"]

OpIds == 1..MaxOps
\* a file on disk: absent, cut short by a failed write, or a complete JSON array
Absent == [state |-> "absent", items |-> <<>>]
Partial == [state |-> "partial", items |-> <<>>]
File(items) == [state |-> "complete", items |-> items]
NoOp == [kind |-> "none", id |-> 0, pc |-> "none", prev |-> 0, before |-> Absent,
         next |-> <<>>]
\* the ids of document directories: the ones crypto.randomUUID hands out, and 0,
\* a shape-valid id it never hands out
DirIds == 0..MaxOps
\* the files of a document directory: lines 862-863 and 890
Files == {"paper.pdf", "cover.png", "metadata.json"}
NoDir == [exists |-> FALSE, files |-> {}]
Dir(files) == [exists |-> TRUE, files |-> files]
Reply(kind, id, status) == [kind |-> kind, id |-> id, status |-> status]
NoMirror == [pc |-> "none", next |-> <<>>]
NotListed == [status |-> 0, body |-> <<>>]
\* an index file whose text is cut short and does not parse (JSON.parse throws)
Truncated(items) == [state |-> "partial", items |-> items]
\* an index file that parses to a value that is not an array: an object that
\* wraps the records
NonArray(items) == [state |-> "object", items |-> items]

\* REMOTE_DATA_DIR, lines 401-403: not set, the primary root (line 397), or
\* another directory
NoRemote == "null"
DATA_DIR == "/app/data"
REMOTE_DIR == "/mnt/mirror"
\* the tags of a record before the request was parsed
NoTags == [parsed |-> FALSE, list |-> <<>>]
\* nothing at the path: stat fails with ENOENT
NoFile == [kind |-> "none", readable |-> FALSE, size |-> 0, bytes |-> <<>>, same |-> FALSE]

\* no request with this upload number arrived yet
NoPost == [arrived |-> FALSE, cause |-> "none", id |-> 0, status |-> 0, rmFailed |-> {}]

\* isPlaceholderCover was not called yet
NoVerdict == [called |-> FALSE, value |-> FALSE]

\* isValidId, line 519: the length the pattern demands
ID_LENGTH == 36
\* PAPERS_DIR, lines 396-398: <root>/data/papers, an absolute normalised path
PAPERS_DIR == <<"/", "a", "p", "p", "/", "d", "a", "t", "a", "/", "p", "a", "p", "e", "r", "s">>
NoPath == <<>>
HexDigits == {"0", "1", "2", "3", "4", "5", "6", "7", "8", "9",
              "a", "b", "c", "d", "e", "f", "A", "B", "C", "D", "E", "F"}
\* the routes that take an id from the URL: lines 743, 757, 795, 912
Routes == {"paper", "cover", "file", "delete"}

\* ---------------------------------------------------------------- helpers
Idle == microtasks = <<>>

Task(kind, n) == [k |-> kind, n |-> n]

HeadIs(kind) == microtasks # <<>> /\ Head(microtasks).k = kind

Min(S) == CHOOSE x \in S : \A y \in S : x <= y

\* ids some request, job, backoff entry or generated cover refers to
Touched == {i \in Ids : \/ covergenFailures[i] # 0
                        \/ coverFile[i] = "real"
                        \/ \E r \in HandlerIds : handlers[r].id = i
                        \/ \E j \in JobIds : jobs[j].id = i}

\* The ids a request may name.  Documents no state refers to and whose cover
\* files are alike are interchangeable, so of those only the first is named.
Requestable ==
  {Ghost} \cup {i \in docs : \/ i \in Touched
                              \/ i = Min({d \in docs \ Touched : coverFile[d] = coverFile[i]})}

\* the documents in the store at start-up have the static placeholder as cover
\* (import-seeds.js 89-94)
SeedCovers == [i \in AllIds |-> IF i \in docs THEN "placeholder" ELSE "missing"]

\* the cover of a document found in the store at start-up: a 1x1 file kept
\* from an earlier version, or none
FoundCover(i) == IF i % 2 = 0 THEN "oneByOne" ELSE "missing"
FoundCovers == [i \in AllIds |-> IF i \in docs THEN FoundCover(i) ELSE "missing"]

\* the cover of a document that is in the store at start-up: the image its
\* client rendered and uploaded (POST /papers, lines 863-880), or the static
\* placeholder (import-seeds.js 89-94)
KeptCover(i) == IF i % 2 = 0 THEN "real" ELSE "placeholder"
KeptCovers == [i \in AllIds |-> IF i \in docs THEN KeptCover(i) ELSE "missing"]

InitCoordinator(slots, available, covers) ==
  /\ maxConcurrency \in slots
  /\ covergenAvailable \in available
  /\ covergenFailures = [i \in AllIds |-> 0]
  /\ covergenInFlight = [i \in AllIds |-> NoJob]
  /\ covergenActive = 0
  /\ covergenWaiters = <<>>
  /\ jobs = [j \in JobIds |-> NoJobRec]
  /\ nJobs = 0
  /\ microtasks = <<>>
  /\ now = 1000
  /\ nTicks = 0
  /\ handlers = [r \in HandlerIds |-> NoHandler]
  /\ nHandlers = 0
  /\ sent = {}
  /\ coverFile = covers

\* ensureStorage, lines 568-574: the index starts as the empty array; spent is
\* the number of file-system failures taken as used up at the start
InitIndexStore(spent) ==
  /\ indexFile = File(<<>>)
  /\ tmpFile = Absent
  /\ indexWriteChain = 0
  /\ released = {0}
  /\ ops = [o \in OpIds |-> NoOp]
  /\ nOps = 0
  /\ nextId = 0
  /\ faults = spent
  /\ applied = <<>>

\* no document directory exists (the papers root is empty), nothing was answered
InitStore ==
  /\ dirs = [i \in DirIds |-> NoDir]
  /\ responses = {}

\* (mutant) the secondary root is not compared with the primary one
remoteConfiguredWhenSet == remoteDataDir # NoRemote

\* lines 577, 676 and 693: REMOTE_DATA_DIR is set and differs from DATA_DIR
remoteConfigured == remoteDataDir # NoRemote /\ remoteDataDir # DATA_DIR

\* ensureRemoteStorage at start-up, lines 576-583 and 967: the secondary index
\* starts as the empty array; without a secondary store there is none
InitRemote(roots) ==
  /\ remoteDataDir \in roots
  /\ remoteIndex = IF remoteConfigured THEN File(<<>>) ELSE Absent
  /\ mirrors = [o \in OpIds |-> NoMirror]

\* the import was not run
NoImport ==
  /\ seedDirs = <<>>
  /\ seedIndex = Absent
  /\ nRuns = 0
  /\ nSeedIds = 0

\* no tags were parsed, isPlaceholderCover was not called, no upload arrived
InitAux ==
  /\ rawTags = <<>>
  /\ tags = NoTags
  /\ probe = NoFile
  /\ verdict = NoVerdict
  /\ tmpDir = {}
  /\ nUploads = 0
  /\ posts = [u \in 1..MaxUploads |-> NoPost]
  /\ remoteTmp = Absent
  /\ NoImport

\* no listing was requested
InitReader == listed = NotListed

\* no request with an id has arrived
InitResolver ==
  /\ reqId = <<>>
  /\ called = "none"
  /\ answer = "pending"
  /\ touched = NoPath

\* every document is in the store; the clock matters only through the timers
InitCover ==
  /\ docs = Ids
  /\ InitCoordinator(1..COVERGEN_DEFAULT_CONCURRENCY, BOOLEAN, SeedCovers)
  /\ InitIndexStore(0)
  /\ InitResolver
  /\ InitReader
  /\ InitStore
  /\ InitRemote({NoRemote})
  /\ InitAux

\* two documents are in the store, the renderer is configured with one slot
\* (COVERGEN_CONCURRENCY=1), and time passes
InitBackoff ==
  /\ docs = {1, 2}
  /\ InitCoordinator({1}, {TRUE}, SeedCovers)
  /\ InitIndexStore(0)
  /\ InitResolver
  /\ InitReader
  /\ InitStore
  /\ InitRemote({NoRemote})
  /\ InitAux

\* ------------------------------------------------ coordinator: operators
\* handler r is suspended at line 776 on the promise of job j
Awaits(r, j) == handlers[r].pc = "await" /\ handlers[r].job = j

\* (mutant) the slot test off by one
CanAcquireOffByOne == covergenActive <= maxConcurrency

\* covergenAcquire, line 433: a slot is free
CanAcquire == covergenActive < maxConcurrency

\* (mutant) the resolver is put at the front of the array
PushedFront(waiters, j) == <<j>> \o waiters

\* covergenWaiters.push(resolve), line 437
Pushed(waiters, j) == Append(waiters, j)

\* (mutant) the comparison of the backoff test reversed
BackoffActiveReversed(id) == covergenFailures[id] # 0 /\ covergenFailures[id] < now

\* generateCoverWithPython, lines 452-454: the id is backing off
BackoffActive(id) == covergenFailures[id] # 0 /\ covergenFailures[id] > now

\* (mutant) the in-flight map is not consulted
ExistingIgnored(id) == NoJob

\* generateCoverWithPython, lines 456-457: the job already in flight for id
Existing(id) == covergenInFlight[id]

\* lines 482-485: the entry written by the catch block
FailedUntil == now + COVERGEN_BACKOFF_MS

\* (mutant) no catch block: a rejected spawn promise rejects the job
JobPromiseUncaught(settled) == IF settled = "rejected" THEN "rejected" ELSE "fulfilled"

\* (mutant) the job is started without looking for the renderer or the source
UnavailableIgnored(id) == FALSE

\* lines 448-450: no interpreter, no script, or no paper.pdf under the id
Unavailable(id) == ~covergenAvailable \/ id \notin docs

\* (mutant) the entry of a finished job stays in the map
DeletedNever(map, id) == map

\* covergenInFlight.delete(id), line 490
Deleted(map, id) == [map EXCEPT ![id] = NoJob]

\* lines 459-491: the try/catch swallows a rejected spawn promise, so the job's
\* promise is fulfilled whatever the renderer did
JobPromise(settled) == "fulfilled"

\* the external renderer (server_py/covergen.py): exit code 0 means that it wrote
\* a real image to the cover path; otherwise the file is left as it was
RendererOutput(code, old) == IF code = 0 THEN "real" ELSE old

\* (mutant) the finally block does not give the slot back
ReleasedNever == covergenActive

\* (mutant) the slot is given back twice, and the count is cut off at 0
ReleasedTwice == IF covergenActive - 2 > 0 THEN covergenActive - 2 ELSE 0

\* covergenRelease, line 442
Released == IF covergenActive - 1 > 0 THEN covergenActive - 1 ELSE 0

\* (mutant) only the bytes are compared, the dimensions are not looked at
isPlaceholderCoverBytesOnly(file) == file = "placeholder"

\* isPlaceholderCover, lines 532-548: the file is byte-equal to the static
\* placeholder, or its PNG header says 1x1
isPlaceholderCover(file) == file \in {"placeholder", "oneByOne"}

\* (mutant) the cover on disk is never looked at: every request regenerates
NeedsCoverAlways(file) == TRUE

\* (mutant) a placeholder on disk is sent as it is
NeedsCoverMissingOnly(file) == file = "missing"

\* lines 764-773: !exists || (await isPlaceholderCover(coverPath))
NeedsCover(file) == file = "missing" \/ isPlaceholderCover(file)

\* sendFileAsync(res, coverPath), line 789: the image sent is the file; a
\* generated or uploaded cover is the body "cover"
FileBody(file) == IF file = "real" THEN "cover" ELSE file

\* lines 778-792: what the handler sends once generateCoverWithPython is over; a
\* rejected await lands in the catch of line 790
CoverResponse(outcome, file) ==
  IF outcome = "fulfilled" /\ ~NeedsCover(file)
  THEN [status |-> 200, body |-> FileBody(file)] ELSE [status |-> 200, body |-> "placeholder"]

\* (mutant) the uploaded cover is stored as it came
StoredCoverAsUploaded(cover) == cover

\* POST /papers, lines 867-880: an uploaded cover of 1x1 is replaced by the
\* static placeholder
StoredCover(cover) == IF cover = "oneByOne" THEN "placeholder" ELSE cover

\* the document that a client uploads, with a 1x1 cover as the smoke test does
\* (smoke_backend.mjs 62-79); the others are in the store at start-up
Uploads == {Min(Ids)}

\* ------------------------------------------------ coordinator: callbacks
\* GET /papers/:id/cover, lines 757-773 and 789: a request for a shape-valid id
\* arrives; a real cover is sent as it is, anything else goes to the coordinator.
GetCover(id) ==
  /\ Idle
  /\ nHandlers < MaxCalls
  /\ LET r == nHandlers + 1 IN
       /\ nHandlers' = r
       /\ handlers' = [handlers EXCEPT ![r] =
            IF ~NeedsCover(coverFile[id])
            THEN Responded
            ELSE [NoHandler EXCEPT !.id = id, !.pc = "call"]]
       /\ sent' = IF ~NeedsCover(coverFile[id])
                  THEN sent \cup {[status |-> 200, body |-> FileBody(coverFile[id])]}
                  ELSE sent
  /\ UNCHANGED <<maxConcurrency, covergenAvailable, covergenFailures, covergenInFlight, covergenActive,
                 covergenWaiters, jobs, nJobs, microtasks, now, nTicks, docs, coverFile>>

\* generateCoverWithPython, lines 447-495, up to its first suspension, called by
\* the handler at line 776.
\* A handler whose await is over reads the cover again and answers (lines
\* 778-792); these reads touch no coordinator state and are folded into the
\* step that ends the await.
GenerateCover(r) ==
  /\ Idle
  /\ handlers[r].pc = "call"
  /\ LET id == handlers[r].id
         j == nJobs + 1 IN
       IF Unavailable(id) \/ BackoffActive(id)
       THEN \* lines 448-454: return at once
            /\ handlers' = [handlers EXCEPT ![r] = Responded]
            /\ sent' = sent \cup {CoverResponse("fulfilled", coverFile[id])}
            /\ UNCHANGED <<covergenInFlight, covergenActive, covergenWaiters, jobs,
                           nJobs, microtasks>>
       ELSE IF Existing(id) # NoJob
       THEN \* line 457: attach to the job in flight
            /\ handlers' = [handlers EXCEPT ![r].pc = "await", ![r].job = Existing(id)]
            /\ jobs' = [jobs EXCEPT ![Existing(id)].callers = @ + 1]
            /\ UNCHANGED <<covergenInFlight, covergenActive, covergenWaiters,
                           nJobs, microtasks, sent>>
       ELSE \* lines 459-494: a new job, run up to covergenAcquire
            /\ nJobs' = j
            /\ IF CanAcquire
               THEN /\ covergenActive' = covergenActive + 1
                    /\ jobs' = [jobs EXCEPT ![j] = [NoJobRec EXCEPT !.id = id, !.callers = 1,
                                                                    !.pc = "acquired"]]
                    /\ microtasks' = Append(microtasks, Task("spawn", j))
                    /\ UNCHANGED covergenWaiters
               ELSE /\ covergenWaiters' = Pushed(covergenWaiters, j)
                    /\ jobs' = [jobs EXCEPT ![j] = [NoJobRec EXCEPT !.id = id, !.callers = 1,
                                                                    !.pc = "waiting"]]
                    /\ UNCHANGED <<covergenActive, microtasks>>
            /\ covergenInFlight' = [covergenInFlight EXCEPT ![id] = j]
            /\ handlers' = [handlers EXCEPT ![r].pc = "await", ![r].job = j]
            /\ UNCHANGED sent
  /\ UNCHANGED <<maxConcurrency, covergenAvailable, covergenFailures, now, nTicks, nHandlers, docs, coverFile>>

\* lines 476-480: the renderer exits by itself with the given code
ProcExit(j, code) ==
  /\ Idle
  /\ jobs[j].proc = "running"
  /\ jobs' = [jobs EXCEPT ![j].proc = "exited", ![j].pc = "settled", ![j].spawnedAt = 0,
                          ![j].settled = IF code = 0 THEN "resolved" ELSE "rejected"]
  /\ coverFile' = [coverFile EXCEPT ![jobs[j].id] = RendererOutput(code, @)]
  /\ microtasks' = Append(microtasks, Task("settle", j))
  /\ UNCHANGED <<sent, maxConcurrency, covergenAvailable, covergenFailures, covergenInFlight, covergenActive,
                 covergenWaiters, nJobs, now, nTicks, handlers, nHandlers, docs>>

\* line 475: the process could not be spawned; the 'error' event follows
ProcError(j) ==
  /\ Idle
  /\ jobs[j].proc = "spawnfail"
  /\ jobs' = [jobs EXCEPT ![j].proc = "none", ![j].pc = "settled", ![j].spawnedAt = 0,
                          ![j].settled = "rejected"]
  /\ microtasks' = Append(microtasks, Task("settle", j))
  /\ UNCHANGED <<sent, maxConcurrency, covergenAvailable, covergenFailures, covergenInFlight, covergenActive,
                 covergenWaiters, nJobs, now, nTicks, handlers, nHandlers, docs, coverFile>>

\* (mutant) the timer kills the process and resolves the promise
TimedOutResolves == "resolved"

\* line 473: the timer rejects the promise the job awaits
TimedOut == "rejected"

\* lines 471-474: the timer of the process that was spawned first fires, 25 s
\* after its spawn, and the process is sent SIGKILL
Timeout(j) ==
  /\ Idle
  /\ jobs[j].proc = "running"
  /\ \A j2 \in JobIds : jobs[j2].proc = "running" => jobs[j2].spawnedAt >= jobs[j].spawnedAt
  /\ now' = jobs[j].spawnedAt + COVERGEN_TIMEOUT_MS
  /\ jobs' = [jobs EXCEPT ![j].proc = "killed", ![j].pc = "settled", ![j].spawnedAt = 0,
                          ![j].settled = TimedOut]
  /\ microtasks' = Append(microtasks, Task("settle", j))
  /\ UNCHANGED <<sent, maxConcurrency, covergenAvailable, covergenFailures, covergenInFlight, covergenActive,
                 covergenWaiters, nJobs, nTicks, handlers, nHandlers, docs, coverFile>>

\* lines 476-480 for a killed process: the promise is settled already
KilledExit(j) ==
  /\ Idle
  /\ jobs[j].proc = "killed"
  /\ jobs' = [jobs EXCEPT ![j].proc = IF jobs[j].pc = "done" THEN "none" ELSE "exited"]
  /\ UNCHANGED <<sent, maxConcurrency, covergenAvailable, covergenFailures, covergenInFlight, covergenActive,
                 covergenWaiters, nJobs, microtasks, now, nTicks, handlers, nHandlers,
                 docs, coverFile>>

\* the clock; a running renderer's timer fires before time passes its deadline
Tick(d) ==
  /\ Idle
  /\ nTicks < MaxTicks
  /\ \A j \in JobIds : jobs[j].proc = "running" =>
                         now + d < jobs[j].spawnedAt + COVERGEN_TIMEOUT_MS
  /\ now' = now + d
  /\ nTicks' = nTicks + 1
  /\ UNCHANGED <<sent, maxConcurrency, covergenAvailable, covergenFailures, covergenInFlight, covergenActive,
                 covergenWaiters, jobs, nJobs, microtasks, handlers, nHandlers, docs,
                 coverFile>>

\* a second passes, or as long as a backoff lasts
TickSteps == {1000, COVERGEN_BACKOFF_MS}

\* ------------------------------------------------ coordinator: continuations
\* covergenAcquire, line 438: a woken waiter takes its slot
RunResume ==
  /\ HeadIs("resume")
  /\ LET j == Head(microtasks).n IN
       /\ covergenActive' = covergenActive + 1
       /\ jobs' = [jobs EXCEPT ![j].pc = "acquired"]
       /\ microtasks' = Append(Tail(microtasks), Task("spawn", j))
  /\ UNCHANGED <<sent, maxConcurrency, covergenAvailable, covergenFailures, covergenInFlight, covergenWaiters,
                 nJobs, now, nTicks, handlers, nHandlers, docs, coverFile>>

\* lines 462-481: the job spawns the renderer and arms the timer
RunSpawn ==
  /\ HeadIs("spawn")
  /\ LET j == Head(microtasks).n IN
       \E spawned \in BOOLEAN :
         jobs' = [jobs EXCEPT ![j].pc = "running",
                              ![j].spawnedAt = IF spawned THEN now ELSE 0,
                              ![j].proc = IF spawned THEN "running" ELSE "spawnfail"]
  /\ microtasks' = Tail(microtasks)
  /\ UNCHANGED <<sent, maxConcurrency, covergenAvailable, covergenFailures, covergenInFlight, covergenActive,
                 covergenWaiters, nJobs, now, nTicks, handlers, nHandlers, docs, coverFile>>

\* lines 482-488 and covergenRelease, lines 441-445
RunSettle ==
  /\ HeadIs("settle")
  /\ LET j == Head(microtasks).n IN
       /\ covergenFailures' =
            IF jobs[j].settled = "rejected"
            THEN [covergenFailures EXCEPT ![jobs[j].id] = FailedUntil]
            ELSE covergenFailures
       /\ covergenActive' = Released
       /\ IF covergenWaiters # <<>>
          THEN /\ covergenWaiters' = Tail(covergenWaiters)
               /\ jobs' = [jobs EXCEPT ![j].pc = "released",
                                       ![Head(covergenWaiters)].pc = "woken"]
               /\ microtasks' = Tail(microtasks) \o
                    <<Task("resume", Head(covergenWaiters)), Task("done", j)>>
          ELSE /\ covergenWaiters' = covergenWaiters
               /\ jobs' = [jobs EXCEPT ![j].pc = "released"]
               /\ microtasks' = Append(Tail(microtasks), Task("done", j))
  /\ UNCHANGED <<sent, maxConcurrency, covergenAvailable, covergenInFlight, nJobs, now, nTicks, handlers,
                 nHandlers, sent, docs, coverFile>>

\* lines 489-491: the job leaves the in-flight map and its promise settles; the
\* handlers that await it resume with its outcome
RunDone ==
  /\ HeadIs("done")
  /\ LET j == Head(microtasks).n IN
       /\ covergenInFlight' = Deleted(covergenInFlight, jobs[j].id)
       /\ jobs' = [jobs EXCEPT ![j] = Finished(jobs[j], JobPromise(jobs[j].settled))]
       /\ handlers' = [r \in HandlerIds |->
            IF Awaits(r, j) THEN Responded ELSE handlers[r]]
       /\ sent' = sent \cup
            {CoverResponse(JobPromise(jobs[j].settled), coverFile[handlers[r].id]) :
               r \in {h \in HandlerIds : Awaits(h, j)}}
       /\ microtasks' = Tail(microtasks)
  /\ UNCHANGED <<maxConcurrency, covergenAvailable, covergenFailures, covergenActive, covergenWaiters,
                 nJobs, now, nTicks, nHandlers, docs, coverFile>>

\* POST /papers, lines 862-880, for a document with a 1x1 cover: paper.pdf and
\* the cover are moved into the new directory and the cover is checked. The
\* steps are taken as one: no client knows the id before the response.
UploadPaper(id) ==
  /\ Idle
  /\ id \notin docs
  /\ docs' = docs \cup {id}
  /\ coverFile' = [coverFile EXCEPT ![id] = StoredCover("oneByOne")]
  /\ UNCHANGED <<maxConcurrency, covergenAvailable, covergenFailures, covergenInFlight,
                 covergenActive, covergenWaiters, jobs, nJobs, microtasks, now, nTicks,
                 handlers, nHandlers, sent>>

NextCover ==
  \/ \E id \in Requestable : GetCover(id) /\ UNCHANGED <<indexVars, pathVars, readVars, storeVars, remoteVars, auxVars>>
  \/ \E r \in HandlerIds : GenerateCover(r) /\ UNCHANGED <<indexVars, pathVars, readVars, storeVars, remoteVars, auxVars>>
  \/ \E j \in JobIds, code \in {0, 1} : ProcExit(j, code) /\ UNCHANGED <<indexVars, pathVars, readVars, storeVars, remoteVars, auxVars>>
  \/ \E j \in JobIds : ProcError(j) /\ UNCHANGED <<indexVars, pathVars, readVars, storeVars, remoteVars, auxVars>>
  \/ \E j \in JobIds : Timeout(j) /\ UNCHANGED <<indexVars, pathVars, readVars, storeVars, remoteVars, auxVars>>
  \/ \E j \in JobIds : KilledExit(j) /\ UNCHANGED <<indexVars, pathVars, readVars, storeVars, remoteVars, auxVars>>
  \/ RunResume /\ UNCHANGED <<indexVars, pathVars, readVars, storeVars, remoteVars, auxVars>>
  \/ RunSpawn /\ UNCHANGED <<indexVars, pathVars, readVars, storeVars, remoteVars, auxVars>>
  \/ RunSettle /\ UNCHANGED <<indexVars, pathVars, readVars, storeVars, remoteVars, auxVars>>
  \/ RunDone /\ UNCHANGED <<indexVars, pathVars, readVars, storeVars, remoteVars, auxVars>>

SpecCover == InitCover /\ [][NextCover]_vars

\* documents with a 1x1 cover file or none are in the store, another is
\* uploaded with a 1x1 cover, and their covers are requested; the renderer, if
\* there is one, has one slot (COVERGEN_CONCURRENCY=1) and does not time out
InitFetch ==
  /\ docs = Ids \ Uploads
  /\ InitCoordinator({1}, BOOLEAN, FoundCovers)
  /\ InitIndexStore(0)
  /\ InitResolver
  /\ InitReader
  /\ InitStore
  /\ InitRemote({NoRemote})
  /\ InitAux

NextFetch ==
  \/ \E id \in Uploads : UploadPaper(id) /\ UNCHANGED <<indexVars, pathVars, readVars, storeVars, remoteVars, auxVars>>
  \/ \E id \in Requestable : GetCover(id) /\ UNCHANGED <<indexVars, pathVars, readVars, storeVars, remoteVars, auxVars>>
  \/ \E r \in HandlerIds : GenerateCover(r) /\ UNCHANGED <<indexVars, pathVars, readVars, storeVars, remoteVars, auxVars>>
  \/ \E j \in JobIds, code \in {0, 1} : ProcExit(j, code) /\ UNCHANGED <<indexVars, pathVars, readVars, storeVars, remoteVars, auxVars>>
  \/ \E j \in JobIds : ProcError(j) /\ UNCHANGED <<indexVars, pathVars, readVars, storeVars, remoteVars, auxVars>>
  \/ RunResume /\ UNCHANGED <<indexVars, pathVars, readVars, storeVars, remoteVars, auxVars>>
  \/ RunSpawn /\ UNCHANGED <<indexVars, pathVars, readVars, storeVars, remoteVars, auxVars>>
  \/ RunSettle /\ UNCHANGED <<indexVars, pathVars, readVars, storeVars, remoteVars, auxVars>>
  \/ RunDone /\ UNCHANGED <<indexVars, pathVars, readVars, storeVars, remoteVars, auxVars>>

SpecFetch == InitFetch /\ [][NextFetch]_vars

\* documents with a real cover and documents with the static placeholder are
\* in the store, another is uploaded, and their covers are requested; the
\* renderer has one slot
InitServe ==
  /\ docs = Ids \ Uploads
  /\ InitCoordinator({1}, {TRUE}, KeptCovers)
  /\ InitIndexStore(0)
  /\ InitResolver
  /\ InitReader
  /\ InitStore
  /\ InitRemote({NoRemote})
  /\ InitAux

SpecServe == InitServe /\ [][NextFetch]_vars

NextBackoff ==
  \/ NextCover
  \/ \E d \in TickSteps : Tick(d) /\ UNCHANGED <<indexVars, pathVars, readVars, storeVars, remoteVars, auxVars>>

SpecBackoff == InitBackoff /\ [][NextBackoff]_vars

\* the variables no step of the coordinator changes
notCoverVars == <<indexVars, pathVars, readVars, storeVars, remoteVars, auxVars>>

\* a handler that has read the cover file goes on to call
\* generateCoverWithPython (line 776): the file-system calls before it complete
CallProceeds(r) == GenerateCover(r) /\ UNCHANGED notCoverVars

\* the renderer of job j exits, cannot be spawned, or lives until its timer
\* fires (lines 471-480)
ProcEnds(j) ==
  /\ \/ \E code \in {0, 1} : ProcExit(j, code)
     \/ ProcError(j)
     \/ Timeout(j)
  /\ UNCHANGED notCoverVars

\* the event loop runs the promise continuations that are queued
Drain ==
  /\ RunResume \/ RunSpawn \/ RunSettle \/ RunDone
  /\ UNCHANGED notCoverVars

\* the steps of the coordinator up to the end of each job; what a killed
\* process does afterwards is left out
NextLive ==
  \/ \E id \in Requestable : GetCover(id) /\ UNCHANGED notCoverVars
  \/ \E r \in HandlerIds : CallProceeds(r)
  \/ \E j \in JobIds : ProcEnds(j)
  \/ Drain

\* two documents and one slot: every request is taken up, every renderer
\* process ends, and the queue of continuations is drained
SpecLive ==
  /\ InitBackoff
  /\ [][NextLive]_vars
  /\ \A r \in HandlerIds : WF_vars(CallProceeds(r))
  /\ \A j \in JobIds : WF_vars(ProcEnds(j))
  /\ WF_vars(Drain)


\* ------------------------------------------------ index store: operators
\* (mutant) whatever the file holds is returned: no catch, no Array.isArray
readIndexUnchecked == indexFile.items

\* readIndex, lines 585-593: the parsed array, [] when the file cannot be read
\* or does not hold an array
readIndex == IF indexFile.state = "complete" THEN indexFile.items ELSE <<>>

\* (mutant) the generator hands out its last value again
RandomUUIDRepeats == IF nextId = 0 THEN 1 ELSE nextId

\* POST /papers, line 858: crypto.randomUUID() never returns the same id twice
RandomUUID == nextId + 1

\* the ids a DELETE can name: the ones a client has seen, in the index (GET
\* /papers) or in the response to its upload, and one that was never handed out
DeleteIds ==
  {0} \cup {ops[o].id : o \in {q \in OpIds : /\ ops[q].kind = "create"
                                              /\ ops[q].pc \in {"return", "done"}}}

\* (mutant) the first record is dropped, whatever its id
WithoutFirst(index, id) == IF index = <<>> THEN <<>> ELSE Tail(index)

\* Array.prototype.filter, line 920
RECURSIVE Without(_, _)
Without(index, id) ==
  IF index = <<>> THEN <<>>
  ELSE IF Head(index) = id THEN Without(Tail(index), id)
  ELSE <<Head(index)>> \o Without(Tail(index), id)

\* the function run under the lock: lines 894-895 (create), 919-920 (delete)
Mutate(kind, id, index) ==
  IF kind = "create" THEN <<id>> \o index ELSE Without(index, id)

\* (mutant) the caller does not wait for the previous holder
PrevSettledIgnored(o) == TRUE

\* withIndexLock, line 603: await prev
PrevSettled(o) == ops[o].prev \in released

InSection(o) == ops[o].pc \in {"write", "rename", "rm", "rename2", "return", "throw"}

\* ------------------------------------------------ index store: steps
\* withIndexLock, lines 598-602, called by POST /papers (line 893) or by
\* DELETE /papers/:id (line 918): the caller takes the tail of the chain as prev
\* and puts its own promise there
CallWithIndexLock(kind, id) ==
  /\ nOps < MaxOps
  /\ nOps' = nOps + 1
  /\ ops' = [ops EXCEPT ![nOps + 1] = [NoOp EXCEPT !.kind = kind, !.id = id,
                                        !.pc = "queued", !.prev = indexWriteChain]]
  /\ indexWriteChain' = nOps + 1
  /\ UNCHANGED <<indexFile, tmpFile, released, faults, applied>>

\* the outcomes of the local steps of POST /papers, lines 860-890: all done, or
\* the first that fails (mkdir, rename of the content file, rename of the cover,
\* the cover is no PNG, write of the placeholder or of the metadata); every
\* failure, the cover that is no PNG too, is counted in faults
CreateOutcomes == {"ok", "mkdir", "pdf", "cover", "check", "meta"}

\* the directory those steps leave behind; the catch of line 902 removes only
\* the uploaded temporary files
Populate(outcome) ==
  CASE outcome = "mkdir" -> NoDir
    [] outcome = "pdf" -> Dir({})
    [] outcome = "cover" -> Dir({"paper.pdf"})
    [] outcome \in {"check", "meta"} -> Dir({"paper.pdf", "cover.png"})
    [] OTHER -> Dir(Files)

\* (mutant) the insert does not wait for the local steps to succeed
ReachesInsertAlways(outcome) == TRUE

\* lines 860-893: withIndexLock is called only when no step before it threw
ReachesInsert(outcome) == outcome = "ok"

\* lines 901-908: the response to an upload that failed before the insert
CreateFailure(outcome) == IF outcome = "check" THEN 400 ELSE 500

\* POST /papers, lines 858-893: a fresh id, the local steps (they touch only the
\* new directory, which no other request can name yet, and are taken as one),
\* then the call of withIndexLock
CreatePaper(outcome) ==
  /\ nextId < MaxOps
  /\ nextId' = RandomUUID
  /\ dirs' = [dirs EXCEPT ![RandomUUID] = Populate(outcome)]
  /\ IF ReachesInsert(outcome)
       THEN /\ CallWithIndexLock("create", RandomUUID)
            /\ UNCHANGED responses
       ELSE /\ faults < MaxFaults
            /\ faults' = faults + 1
            /\ responses' = responses \cup
                              {Reply("create", RandomUUID, CreateFailure(outcome))}
            /\ UNCHANGED <<indexFile, tmpFile, indexWriteChain, released, ops, nOps,
                           applied>>

\* (mutant) rm without force: a missing directory is an error
RmSucceedsStrict(exists, ok) == ok /\ exists

\* fsp.rm(paperDir, { recursive: true, force: true }), line 917
RmSucceeds(exists, ok) == ok

\* DELETE /papers/:id, lines 916-918: the directory is removed, then
\* withIndexLock is called; a failure of rm lands in the catch of line 925
DeletePaper(id, ok) ==
  /\ UNCHANGED nextId
  /\ IF RmSucceeds(dirs[id].exists, ok)
       THEN /\ dirs' = [dirs EXCEPT ![id] = NoDir]
            /\ CallWithIndexLock("delete", id)
            /\ UNCHANGED responses
       ELSE /\ ~ok => faults < MaxFaults
            /\ faults' = IF ok THEN faults ELSE faults + 1
            /\ responses' = responses \cup {Reply("delete", id, 500)}
            /\ UNCHANGED <<dirs, indexFile, tmpFile, indexWriteChain, released, ops,
                           nOps, applied>>

\* lines 603-605 and fn up to its writeIndex: prev is resolved, fn reads the
\* index (nobody else writes it meanwhile) and computes the array to write
EnterSection(o) ==
  /\ ops[o].pc = "queued"
  /\ PrevSettled(o)
  /\ ops' = [ops EXCEPT ![o].pc = "write", ![o].before = indexFile,
                        ![o].next = Mutate(ops[o].kind, ops[o].id, readIndex)]
  /\ UNCHANGED <<indexFile, tmpFile, indexWriteChain, released, nOps, nextId, faults,
                 applied>>

\* a file-system call fails: at most MaxFaults times in a run
Fails(ok) == ~ok /\ faults < MaxFaults /\ faults' = faults + 1
Succeeds(ok) == ok /\ faults' = faults

\* atomicWriteJson, lines 613-615: mkdir, then the temporary file is written
WriteTmp(o, ok) ==
  /\ ops[o].pc = "write"
  /\ \/ /\ Succeeds(ok)
        /\ tmpFile' = File(ops[o].next)
        /\ ops' = [ops EXCEPT ![o].pc = "rename"]
     \/ /\ Fails(ok)
        /\ tmpFile' \in {tmpFile, Partial}
        /\ ops' = [ops EXCEPT ![o].pc = "throw"]
  /\ UNCHANGED <<indexFile, indexWriteChain, released, nOps, nextId, applied>>

\* line 617: rename(tmp, file); a failure is caught at line 618
Rename(o, ok) ==
  /\ ops[o].pc = "rename"
  /\ \/ /\ Succeeds(ok)
        /\ indexFile' = tmpFile
        /\ tmpFile' = Absent
        /\ ops' = [ops EXCEPT ![o].pc = "return"]
     \/ /\ Fails(ok)
        /\ ops' = [ops EXCEPT ![o].pc = "rm"]
        /\ UNCHANGED <<indexFile, tmpFile>>
  /\ UNCHANGED <<indexWriteChain, released, nOps, nextId, applied>>

\* line 620: rm(file, force)
RemoveTarget(o, ok) ==
  /\ ops[o].pc = "rm"
  /\ \/ /\ Succeeds(ok)
        /\ indexFile' = Absent
        /\ ops' = [ops EXCEPT ![o].pc = "rename2"]
     \/ /\ Fails(ok)
        /\ ops' = [ops EXCEPT ![o].pc = "throw"]
        /\ UNCHANGED indexFile
  /\ UNCHANGED <<tmpFile, indexWriteChain, released, nOps, nextId, applied>>

\* line 621: the second rename(tmp, file); a failure leaves atomicWriteJson
RenameAgain(o, ok) ==
  /\ ops[o].pc = "rename2"
  /\ \/ /\ Succeeds(ok)
        /\ indexFile' = tmpFile
        /\ tmpFile' = Absent
        /\ ops' = [ops EXCEPT ![o].pc = "return"]
     \/ /\ Fails(ok)
        /\ ops' = [ops EXCEPT ![o].pc = "throw"]
        /\ UNCHANGED <<indexFile, tmpFile>>
  /\ UNCHANGED <<indexWriteChain, released, nOps, nextId, applied>>

\* lines 901 and 908 (POST), 924 and 926 (DELETE): the status of the response
Status(kind, threw) == IF threw THEN 500 ELSE IF kind = "create" THEN 201 ELSE 204

\* (mutant) release() is called after return await fn() only, not in a finally
FinallyOnReturnOnly(o) == IF ops[o].pc = "return" THEN released \cup {o} ELSE released

\* lines 606-608: finally { release?.() }, whether fn returned or threw
Finally(o) == released \cup {o}

\* withIndexLock, lines 606-608: finally release(), after fn returned or threw.
\* The handler resumes in the same drain of the microtask queue: when fn threw
\* it answers 500 (lines 902-908, 925-927); when no secondary store is
\* configured, mirrorToRemote and removeRemotePaper return at once (lines 676,
\* 693) and it answers 201 or 204; otherwise the mirror call starts.
Release(o) ==
  /\ ops[o].pc \in {"return", "throw"}
  /\ released' = Finally(o)
  /\ ops' = [ops EXCEPT ![o].pc = IF ops[o].pc = "return" THEN "done" ELSE "failed"]
  /\ applied' = IF ops[o].pc = "return" THEN Mutate(ops[o].kind, ops[o].id, applied)
                ELSE applied
  /\ IF ops[o].pc = "return" /\ remoteConfigured
       THEN /\ mirrors' = [mirrors EXCEPT ![o].pc = "copy"]
            /\ UNCHANGED responses
       ELSE /\ responses' = responses \cup
                 {Reply(ops[o].kind, ops[o].id, Status(ops[o].kind, ops[o].pc = "throw"))}
            /\ UNCHANGED mirrors
  /\ UNCHANGED <<indexFile, tmpFile, indexWriteChain, nOps, nextId, faults, dirs,
                 remoteDataDir, remoteIndex>>

\* ---------------------------------------------------------------- secondary store
\* readRemoteIndex, lines 629-638
readRemoteIndex == IF remoteIndex.state = "complete" THEN remoteIndex.items ELSE <<>>

\* (mutant) the error of the mirror reaches the handler, whose catch answers 500
MirrorStatusUncaught(kind, failed) == Status(kind, failed)

\* lines 687-689 and 700-702: the catch inside mirrorToRemote and
\* removeRemotePaper logs the error and returns, and the handler answers as if
\* the mirror had succeeded (901, 924)
MirrorStatus(kind, failed) == Status(kind, FALSE)

\* the mirror call of o returns and the handler sends its response, lines 899-901
\* and 923-924
MirrorReturns(o, failed) ==
  /\ mirrors' = [mirrors EXCEPT ![o].pc = IF failed THEN "failed" ELSE "done"]
  /\ responses' = responses \cup
                    {Reply(ops[o].kind, ops[o].id, MirrorStatus(ops[o].kind, failed))}

\* mirrorToRemote, lines 678-683: ensureRemoteStorage (which writes [] when
\* the secondary index file does not exist), mkdir, the two copies from the
\* primary directory and the metadata file; removeRemotePaper, lines 695-696:
\* rm of the secondary directory. The directories of the secondary store are
\* not kept in the state: only this call touches the directory of its id. A
\* copy fails when the primary directory has been removed meanwhile.
MirrorCopy(o, ok) ==
  /\ mirrors[o].pc = "copy"
  /\ remoteIndex' = IF ops[o].kind = "create" /\ remoteIndex.state = "absent"
                    THEN File(<<>>) ELSE remoteIndex
  /\ IF ok /\ (ops[o].kind = "create" => dirs[ops[o].id] = Dir(Files))
       THEN /\ mirrors' = [mirrors EXCEPT ![o].pc = "read"]
            /\ UNCHANGED <<responses, faults>>
       ELSE /\ ~ok => faults < MaxFaults
            /\ faults' = IF ok THEN faults ELSE faults + 1
            /\ MirrorReturns(o, TRUE)
  /\ UNCHANGED <<indexFile, tmpFile, indexWriteChain, released, ops, nOps, nextId,
                 applied, dirs, remoteDataDir>>

\* (mutant) the record is put in front of whatever the secondary index holds
MirrorNextUnfiltered(kind, id) ==
  IF kind = "create" THEN <<id>> \o readRemoteIndex ELSE Without(readRemoteIndex, id)

\* lines 685 and 698: [{ id, ...metadata }, ...index.filter((entry) =>
\* entry.id !== id)] for mirrorToRemote, index.filter((entry) => entry.id !==
\* id) for removeRemotePaper
MirrorNext(kind, id) == Mutate(kind, id, Without(readRemoteIndex, id))

\* lines 684-685 and 697-698: the secondary index is read, outside any lock,
\* and the array to write is computed
MirrorRead(o) ==
  /\ mirrors[o].pc = "read"
  /\ mirrors' = [mirrors EXCEPT ![o].pc = "write",
                                ![o].next = MirrorNext(ops[o].kind, ops[o].id)]
  /\ UNCHANGED <<indexVars, storeVars, remoteDataDir, remoteIndex>>

\* lines 686 and 699: writeRemoteIndex, that is atomicWriteJson on the secondary
\* index file, taken as one step: it replaces the file, or fails and leaves it
\* as it was (lines 613-617) or removed (line 620 without 621)
MirrorWrite(o, ok, removed) ==
  /\ mirrors[o].pc = "write"
  /\ IF ok
       THEN /\ ~removed
            /\ remoteIndex' = File(mirrors[o].next)
            /\ faults' = faults
       ELSE /\ faults < MaxFaults
            /\ faults' = faults + 1
            /\ remoteIndex' = IF removed THEN Absent ELSE remoteIndex
  /\ MirrorReturns(o, ~ok)
  /\ UNCHANGED <<indexFile, tmpFile, indexWriteChain, released, ops, nOps, nextId,
                 applied, dirs, remoteDataDir>>

\* a secondary store is configured; the files of the primary index and the
\* steps on the document directories do not fail, those of the mirror do
InitMirror ==
  /\ docs = {}
  /\ InitCoordinator({COVERGEN_DEFAULT_CONCURRENCY}, {TRUE}, SeedCovers)
  /\ InitIndexStore(0)
  /\ InitResolver
  /\ InitReader
  /\ InitStore
  /\ InitRemote({REMOTE_DIR})
  /\ InitAux

\* at most MaxMirrors uploads and deletions, each followed by its mirror call
NextMirror ==
  \/ /\ nOps < MaxMirrors
     /\ CreatePaper("ok")
     /\ UNCHANGED <<coverVars, pathVars, readVars, remoteVars, auxVars>>
  \/ \E id \in DeleteIds :
       /\ nOps < MaxMirrors
       /\ DeletePaper(id, TRUE)
       /\ UNCHANGED <<coverVars, pathVars, readVars, remoteVars, auxVars>>
  \/ \E o \in OpIds :
       EnterSection(o) /\ UNCHANGED <<coverVars, pathVars, readVars, storeVars, remoteVars, auxVars>>
  \/ \E o \in OpIds :
       WriteTmp(o, TRUE) /\ UNCHANGED <<coverVars, pathVars, readVars, storeVars, remoteVars, auxVars>>
  \/ \E o \in OpIds :
       Rename(o, TRUE) /\ UNCHANGED <<coverVars, pathVars, readVars, storeVars, remoteVars, auxVars>>
  \/ \E o \in OpIds : Release(o) /\ UNCHANGED <<coverVars, pathVars, readVars, auxVars>>
  \/ \E o \in OpIds, ok \in BOOLEAN : MirrorCopy(o, ok) /\ UNCHANGED <<coverVars, pathVars, readVars, auxVars>>
  \/ \E o \in OpIds : MirrorRead(o) /\ UNCHANGED <<coverVars, pathVars, readVars, auxVars>>
  \/ \E o \in OpIds, ok, removed \in BOOLEAN :
       MirrorWrite(o, ok, removed) /\ UNCHANGED <<coverVars, pathVars, readVars, auxVars>>

SpecMirror == InitMirror /\ [][NextMirror]_vars

\* a secondary store is configured; the files of the primary index fail, the
\* steps of the mirror do not
NextMirrorFaults ==
  \/ /\ nOps < MaxMirrors
     /\ CreatePaper("ok")
     /\ UNCHANGED <<coverVars, pathVars, readVars, remoteVars, auxVars>>
  \/ \E id \in DeleteIds :
       /\ nOps < MaxMirrors
       /\ DeletePaper(id, TRUE)
       /\ UNCHANGED <<coverVars, pathVars, readVars, remoteVars, auxVars>>
  \/ \E o \in OpIds :
       EnterSection(o) /\ UNCHANGED <<coverVars, pathVars, readVars, storeVars, remoteVars, auxVars>>
  \/ \E o \in OpIds, ok \in BOOLEAN :
       WriteTmp(o, ok) /\ UNCHANGED <<coverVars, pathVars, readVars, storeVars, remoteVars, auxVars>>
  \/ \E o \in OpIds, ok \in BOOLEAN :
       Rename(o, ok) /\ UNCHANGED <<coverVars, pathVars, readVars, storeVars, remoteVars, auxVars>>
  \/ \E o \in OpIds, ok \in BOOLEAN :
       RemoveTarget(o, ok) /\ UNCHANGED <<coverVars, pathVars, readVars, storeVars, remoteVars, auxVars>>
  \/ \E o \in OpIds, ok \in BOOLEAN :
       RenameAgain(o, ok) /\ UNCHANGED <<coverVars, pathVars, readVars, storeVars, remoteVars, auxVars>>
  \/ \E o \in OpIds : Release(o) /\ UNCHANGED <<coverVars, pathVars, readVars, auxVars>>
  \/ \E o \in OpIds : MirrorCopy(o, TRUE) /\ UNCHANGED <<coverVars, pathVars, readVars, auxVars>>
  \/ \E o \in OpIds : MirrorRead(o) /\ UNCHANGED <<coverVars, pathVars, readVars, auxVars>>
  \/ \E o \in OpIds : MirrorWrite(o, TRUE, FALSE) /\ UNCHANGED <<coverVars, pathVars, readVars, auxVars>>

SpecMirrorFaults == InitMirror /\ [][NextMirrorFaults]_vars

\* writeRemoteIndex, lines 640-643, step by step: atomicWriteJson on the
\* secondary index file, line 615: the array is written to the temporary
\* file, the one path every call uses (writeFile is taken as one step)
SecWriteTmp(o) ==
  /\ mirrors[o].pc = "write"
  /\ remoteTmp' = File(mirrors[o].next)
  /\ mirrors' = [mirrors EXCEPT ![o].pc = "rename"]
  /\ UNCHANGED <<indexVars, storeVars, remoteDataDir, remoteIndex>>

\* fsp.rename(tmpPath, filePath) throws ENOENT when another call has renamed
\* the temporary file away
Renames(tmp) == tmp # Absent

\* line 617: rename(tmp, file); when it throws, the catch of line 618 is entered
SecRename(o) ==
  /\ mirrors[o].pc = "rename"
  /\ IF Renames(remoteTmp)
       THEN /\ remoteIndex' = IF remoteTmp = Absent THEN remoteIndex ELSE remoteTmp
            /\ remoteTmp' = Absent
            /\ MirrorReturns(o, FALSE)
       ELSE /\ mirrors' = [mirrors EXCEPT ![o].pc = "rm"]
            /\ UNCHANGED <<remoteIndex, remoteTmp, responses>>
  /\ UNCHANGED <<indexVars, dirs, remoteDataDir>>

\* line 620: rm(file, force)
SecRemoveTarget(o) ==
  /\ mirrors[o].pc = "rm"
  /\ remoteIndex' = Absent
  /\ mirrors' = [mirrors EXCEPT ![o].pc = "rename2"]
  /\ UNCHANGED <<indexVars, storeVars, remoteDataDir, remoteTmp>>

\* line 621: the second rename(tmp, file); when it throws, the error leaves
\* atomicWriteJson and is caught at lines 687 and 700
SecRenameAgain(o) ==
  /\ mirrors[o].pc = "rename2"
  /\ IF Renames(remoteTmp)
       THEN /\ remoteIndex' = IF remoteTmp = Absent THEN remoteIndex ELSE remoteTmp
            /\ remoteTmp' = Absent
            /\ MirrorReturns(o, FALSE)
       ELSE /\ MirrorReturns(o, TRUE)
            /\ UNCHANGED <<remoteIndex, remoteTmp>>
  /\ UNCHANGED <<indexVars, dirs, remoteDataDir>>

\* uploads and deletions with their mirror calls, the write of the secondary
\* index step by step; no file-system call fails of itself
NextSecondary ==
  \/ /\ nOps < MaxMirrors
     /\ CreatePaper("ok")
     /\ UNCHANGED <<coverVars, pathVars, readVars, remoteVars, auxVars>>
  \/ \E id \in DeleteIds :
       /\ nOps < MaxMirrors
       /\ DeletePaper(id, TRUE)
       /\ UNCHANGED <<coverVars, pathVars, readVars, remoteVars, auxVars>>
  \/ \E o \in OpIds :
       EnterSection(o) /\ UNCHANGED <<coverVars, pathVars, readVars, storeVars, remoteVars, auxVars>>
  \/ \E o \in OpIds :
       WriteTmp(o, TRUE) /\ UNCHANGED <<coverVars, pathVars, readVars, storeVars, remoteVars, auxVars>>
  \/ \E o \in OpIds :
       Rename(o, TRUE) /\ UNCHANGED <<coverVars, pathVars, readVars, storeVars, remoteVars, auxVars>>
  \/ \E o \in OpIds : Release(o) /\ UNCHANGED <<coverVars, pathVars, readVars, auxVars>>
  \/ \E o \in OpIds : MirrorCopy(o, TRUE) /\ UNCHANGED <<coverVars, pathVars, readVars, auxVars>>
  \/ \E o \in OpIds : MirrorRead(o) /\ UNCHANGED <<coverVars, pathVars, readVars, auxVars>>
  \/ \E o \in OpIds :
       SecWriteTmp(o) /\ UNCHANGED <<coverVars, pathVars, readVars, tagVars, pngVars, uploadVars,
                     importVars>>
  \/ \E o \in OpIds :
       SecRename(o) /\ UNCHANGED <<coverVars, pathVars, readVars, tagVars, pngVars, uploadVars,
                     importVars>>
  \/ \E o \in OpIds :
       SecRemoveTarget(o) /\ UNCHANGED <<coverVars, pathVars, readVars, tagVars, pngVars, uploadVars,
                     importVars>>
  \/ \E o \in OpIds :
       SecRenameAgain(o) /\ UNCHANGED <<coverVars, pathVars, readVars, tagVars, pngVars, uploadVars,
                     importVars>>

SpecSecondary == InitMirror /\ [][NextSecondary]_vars

\* the ids mirrorToRemote and removeRemotePaper are called with
MirrorIds == {1, 2}

\* mirrorToRemote(id, ...) or removeRemotePaper(id) is called, with the id of
\* a document whose files exist, while no other call of the two is running:
\* the calls are made one after the other
CallMirror(kind, id) ==
  /\ nOps < MaxMirrors
  /\ \A o \in OpIds : ~(mirrors[o].pc \in {"copy", "read", "write"})
  /\ nOps' = nOps + 1
  /\ ops' = [ops EXCEPT ![nOps + 1] = [NoOp EXCEPT !.kind = kind, !.id = id,
                                                   !.pc = "done"]]
  /\ mirrors' = [mirrors EXCEPT ![nOps + 1].pc = "copy"]
  /\ UNCHANGED <<indexFile, tmpFile, indexWriteChain, released, nextId, faults, applied,
                 dirs, responses, remoteDataDir, remoteIndex>>

\* a secondary store is configured and empty; the documents of MirrorIds have
\* their files in the primary store
InitUpsert ==
  /\ docs = {}
  /\ InitCoordinator({COVERGEN_DEFAULT_CONCURRENCY}, {TRUE}, SeedCovers)
  /\ indexFile = File(<<2, 1>>)
  /\ tmpFile = Absent
  /\ indexWriteChain = 0
  /\ released = {0}
  /\ ops = [o \in OpIds |-> NoOp]
  /\ nOps = 0
  /\ nextId = 2
  /\ faults = 0
  /\ applied = <<2, 1>>
  /\ InitResolver
  /\ InitReader
  /\ dirs = [i \in DirIds |-> IF i \in MirrorIds THEN Dir(Files) ELSE NoDir]
  /\ responses = {}
  /\ InitRemote({REMOTE_DIR})
  /\ InitAux

\* calls of mirrorToRemote and removeRemotePaper, one at a time, none of whose
\* steps fails
NextUpsert ==
  \/ \E kind \in {"create", "delete"}, id \in MirrorIds :
       CallMirror(kind, id) /\ UNCHANGED <<coverVars, pathVars, readVars, auxVars>>
  \/ \E o \in OpIds : MirrorCopy(o, TRUE) /\ UNCHANGED <<coverVars, pathVars, readVars, auxVars>>
  \/ \E o \in OpIds : MirrorRead(o) /\ UNCHANGED <<coverVars, pathVars, readVars, auxVars>>
  \/ \E o \in OpIds : MirrorWrite(o, TRUE, FALSE) /\ UNCHANGED <<coverVars, pathVars, readVars, auxVars>>

SpecUpsert == InitUpsert /\ [][NextUpsert]_vars

\* REMOTE_DATA_DIR is not set, or names the primary root; no file-system call
\* fails
InitUnmirrored ==
  /\ docs = {}
  /\ InitCoordinator({COVERGEN_DEFAULT_CONCURRENCY}, {TRUE}, SeedCovers)
  /\ InitIndexStore(0)
  /\ InitResolver
  /\ InitReader
  /\ InitStore
  /\ InitRemote({NoRemote, DATA_DIR})
  /\ InitAux

\* at most MaxMirrors uploads and deletions
NextUnmirrored ==
  \/ /\ nOps < MaxMirrors
     /\ CreatePaper("ok")
     /\ UNCHANGED <<coverVars, pathVars, readVars, remoteVars, auxVars>>
  \/ \E id \in DeleteIds :
       /\ nOps < MaxMirrors
       /\ DeletePaper(id, TRUE)
       /\ UNCHANGED <<coverVars, pathVars, readVars, remoteVars, auxVars>>
  \/ \E o \in OpIds :
       EnterSection(o) /\ UNCHANGED <<coverVars, pathVars, readVars, storeVars, remoteVars, auxVars>>
  \/ \E o \in OpIds :
       WriteTmp(o, TRUE) /\ UNCHANGED <<coverVars, pathVars, readVars, storeVars, remoteVars, auxVars>>
  \/ \E o \in OpIds :
       Rename(o, TRUE) /\ UNCHANGED <<coverVars, pathVars, readVars, storeVars, remoteVars, auxVars>>
  \/ \E o \in OpIds : Release(o) /\ UNCHANGED <<coverVars, pathVars, readVars, auxVars>>

SpecUnmirrored == InitUnmirrored /\ [][NextUnmirrored]_vars

\* ---------------------------------------------------------------- reading the index
\* the sequences of at most n distinct record ids
RecordSeqs(n) ==
  {t \in UNION {[1..k -> DirIds] : k \in 0..n} :
     \A a, b \in DOMAIN t : a # b => t[a] # t[b]}

\* what INDEX_FILE can hold when it is read: nothing, a text that does not
\* parse, a JSON value that is not an array, or an array of records
IndexContents ==
  {Absent} \cup {Truncated(t) : t \in RecordSeqs(MaxRecords)}
           \cup {NonArray(t) : t \in RecordSeqs(MaxRecords)}
           \cup {File(t) : t \in RecordSeqs(MaxRecords)}

\* GET /papers, lines 738-741: res.json(await readIndex()); the handler has no
\* catch of its own
ListPapers ==
  /\ listed = NotListed
  /\ listed' = [status |-> 200, body |-> readIndex]

\* the index file holds any of IndexContents when the listing is requested
InitRead ==
  /\ docs = {}
  /\ InitCoordinator({COVERGEN_DEFAULT_CONCURRENCY}, {TRUE}, SeedCovers)
  /\ indexFile \in IndexContents
  /\ tmpFile = Absent
  /\ indexWriteChain = 0
  /\ released = {0}
  /\ ops = [o \in OpIds |-> NoOp]
  /\ nOps = 0
  /\ nextId = 0
  /\ faults = 0
  /\ applied = <<>>
  /\ InitResolver
  /\ InitReader
  /\ InitStore
  /\ InitRemote({NoRemote})
  /\ InitAux

NextRead ==
  \/ ListPapers /\ UNCHANGED <<coverVars, indexVars, pathVars, storeVars, remoteVars, auxVars>>

SpecRead == InitRead /\ [][NextRead]_vars

\* no cover is requested; the index is created, deleted from and written: the
\* files of the index fail, the document directories do not
InitIndex ==
  /\ docs = {}
  /\ InitCoordinator({COVERGEN_DEFAULT_CONCURRENCY}, {TRUE}, SeedCovers)
  /\ InitIndexStore(0)
  /\ InitResolver
  /\ InitReader
  /\ InitStore
  /\ InitRemote({NoRemote})
  /\ InitAux

NextIndex ==
  \/ CreatePaper("ok") /\ UNCHANGED <<coverVars, pathVars, readVars, remoteVars, auxVars>>
  \/ \E id \in DeleteIds :
       DeletePaper(id, TRUE) /\ UNCHANGED <<coverVars, pathVars, readVars, remoteVars, auxVars>>
  \/ \E o \in OpIds :
       EnterSection(o) /\ UNCHANGED <<coverVars, pathVars, readVars, storeVars, remoteVars, auxVars>>
  \/ \E o \in OpIds, ok \in BOOLEAN :
       WriteTmp(o, ok) /\ UNCHANGED <<coverVars, pathVars, readVars, storeVars, remoteVars, auxVars>>
  \/ \E o \in OpIds, ok \in BOOLEAN :
       Rename(o, ok) /\ UNCHANGED <<coverVars, pathVars, readVars, storeVars, remoteVars, auxVars>>
  \/ \E o \in OpIds, ok \in BOOLEAN :
       RemoveTarget(o, ok) /\ UNCHANGED <<coverVars, pathVars, readVars, storeVars, remoteVars, auxVars>>
  \/ \E o \in OpIds, ok \in BOOLEAN :
       RenameAgain(o, ok) /\ UNCHANGED <<coverVars, pathVars, readVars, storeVars, remoteVars, auxVars>>
  \/ \E o \in OpIds : Release(o) /\ UNCHANGED <<coverVars, pathVars, readVars, auxVars>>

SpecIndex == InitIndex /\ [][NextIndex]_vars

\* the steps of one call of withIndexLock: the continuation after await prev,
\* the file-system calls of fn, each of which returns or throws, and the
\* finally block
OpProceeds(o) ==
  \/ EnterSection(o) /\ UNCHANGED <<coverVars, pathVars, readVars, storeVars, remoteVars, auxVars>>
  \/ \E ok \in BOOLEAN :
       WriteTmp(o, ok) /\ UNCHANGED <<coverVars, pathVars, readVars, storeVars, remoteVars, auxVars>>
  \/ \E ok \in BOOLEAN :
       Rename(o, ok) /\ UNCHANGED <<coverVars, pathVars, readVars, storeVars, remoteVars, auxVars>>
  \/ \E ok \in BOOLEAN :
       RemoveTarget(o, ok) /\ UNCHANGED <<coverVars, pathVars, readVars, storeVars, remoteVars, auxVars>>
  \/ \E ok \in BOOLEAN :
       RenameAgain(o, ok) /\ UNCHANGED <<coverVars, pathVars, readVars, storeVars, remoteVars, auxVars>>
  \/ Release(o) /\ UNCHANGED <<coverVars, pathVars, readVars, auxVars>>

\* at most MaxMirrors uploads and deletions; the files of the index fail
NextIndexLive ==
  \/ /\ nOps < MaxMirrors
     /\ CreatePaper("ok")
     /\ UNCHANGED <<coverVars, pathVars, readVars, remoteVars, auxVars>>
  \/ \E id \in DeleteIds :
       /\ nOps < MaxMirrors
       /\ DeletePaper(id, TRUE)
       /\ UNCHANGED <<coverVars, pathVars, readVars, remoteVars, auxVars>>
  \/ \E o \in OpIds : OpProceeds(o)

\* every file-system call of fn returns or throws, and the event loop runs
\* every continuation that is ready
SpecIndexLive ==
  /\ InitIndex
  /\ [][NextIndexLive]_vars
  /\ \A o \in OpIds : WF_vars(OpProceeds(o))

\* uploads and deletions of which one step on a document directory may fail,
\* while the files of the index do not
InitStoreFaults ==
  /\ docs = {}
  /\ InitCoordinator({COVERGEN_DEFAULT_CONCURRENCY}, {TRUE}, SeedCovers)
  /\ InitIndexStore(MaxFaults - 1)
  /\ InitResolver
  /\ InitReader
  /\ InitStore
  /\ InitRemote({NoRemote})
  /\ InitAux

NextStore ==
  \/ \E outcome \in CreateOutcomes :
       CreatePaper(outcome) /\ UNCHANGED <<coverVars, pathVars, readVars, remoteVars, auxVars>>
  \/ \E id \in DeleteIds, ok \in BOOLEAN :
       DeletePaper(id, ok) /\ UNCHANGED <<coverVars, pathVars, readVars, remoteVars, auxVars>>
  \/ \E o \in OpIds :
       EnterSection(o) /\ UNCHANGED <<coverVars, pathVars, readVars, storeVars, remoteVars, auxVars>>
  \/ \E o \in OpIds :
       WriteTmp(o, TRUE) /\ UNCHANGED <<coverVars, pathVars, readVars, storeVars, remoteVars, auxVars>>
  \/ \E o \in OpIds :
       Rename(o, TRUE) /\ UNCHANGED <<coverVars, pathVars, readVars, storeVars, remoteVars, auxVars>>
  \/ \E o \in OpIds : Release(o) /\ UNCHANGED <<coverVars, pathVars, readVars, auxVars>>

SpecStore == InitStoreFaults /\ [][NextStore]_vars


\* ------------------------------------------------ ids and paths: operators
\* (mutant) only the length is tested, not the characters
isValidIdLengthOnly(id) == Len(id) = ID_LENGTH

\* isValidId, lines 518-520: /^[a-f0-9-]{36}$/i
isValidId(id) ==
  /\ Len(id) = ID_LENGTH
  /\ \A i \in 1..Len(id) : id[i] \in HexDigits \cup {"-"}

\* the segments of a path between its separators
RECURSIVE Split(_, _, _)
Split(s, i, cur) ==
  IF i > Len(s) THEN <<cur>>
  ELSE IF s[i] = "/" THEN <<cur>> \o Split(s, i + 1, <<>>)
  ELSE Split(s, i + 1, Append(cur, s[i]))

\* path normalisation: "" and "." are dropped, ".." removes the segment before
\* it (and is dropped at the root)
RECURSIVE Collapse(_, _)
Collapse(segs, stack) ==
  IF segs = <<>> THEN stack
  ELSE LET h == Head(segs) IN
       Collapse(Tail(segs),
                IF h = <<>> \/ h = <<".">> THEN stack
                ELSE IF h = <<".", ".">>
                       THEN IF stack = <<>> THEN stack
                            ELSE SubSeq(stack, 1, Len(stack) - 1)
                ELSE Append(stack, h))

RECURSIVE Joined(_)
Joined(stack) ==
  IF stack = <<>> THEN <<>> ELSE <<"/">> \o Head(stack) \o Joined(Tail(stack))

\* path.join(a, b), line 655: the two joined by a separator (normalised below)
PathJoin(a, b) == IF b = <<>> THEN a ELSE a \o <<"/">> \o b

\* path.resolve(p) of an absolute path, lines 656-657: normalised, no trailing
\* separator
PathResolve(p) ==
  LET stack == Collapse(Split(p, 1, <<>>), <<>>)
  IN  IF stack = <<>> THEN <<"/">> ELSE Joined(stack)

\* String.prototype.startsWith, line 658
StartsWith(s, prefix) ==
  Len(s) >= Len(prefix) /\ SubSeq(s, 1, Len(prefix)) = prefix

\* (mutant) the prefix test is left out
resolvePaperDirUnchecked(id) ==
  [ok |-> TRUE, path |-> PathResolve(PathJoin(PAPERS_DIR, id))]

\* resolvePaperDir, lines 654-662
resolvePaperDir(id) ==
  LET target == PathJoin(PAPERS_DIR, id)
      resolved == PathResolve(target)
      base == PathResolve(PAPERS_DIR)
  IN  IF ~StartsWith(resolved, base) THEN [ok |-> FALSE, path |-> NoPath]
      ELSE [ok |-> TRUE, path |-> resolved]

\* ------------------------------------------------ ids and paths: inputs
IdChars == {"a", "F", "-", ".", "/", "g"}

\* the strings over IdChars of length at most n
RECURSIVE Strings(_)
Strings(n) ==
  IF n = 0 THEN {<<>>}
  ELSE LET S == Strings(n - 1)
       IN  S \cup {Append(t, c) : t \in {u \in S : Len(u) = n - 1}, c \in IdChars}

\* a value of crypto.randomUUID()
SampleUuid == <<"3", "f", "2", "b", "8", "c", "1", "e", "-", "9", "a", "4", "d", "-", "4", "e", "7", "b", "-", "8", "c", "2", "1", "-", "0", "d", "5", "e", "6", "f", "7", "a", "8", "b", "9", "c">>
DotDotEtc == <<".", ".", "/", ".", ".", "/", "e", "t", "c">>
NotAValidId == <<"n", "o", "t", "-", "a", "-", "v", "a", "l", "i", "d", "-", "i", "d">>
SiblingId == <<".", ".", "/", "p", "a", "p", "e", "r", "s", "-", "e", "v", "i", "l">>

\* p, continued by the sample to the length of an id
Padded(p) == p \o SubSeq(SampleUuid, Len(p) + 1, ID_LENGTH)

\* values of crypto.randomUUID(): lower-case hexadecimal digits and hyphens
UuidStrings == {Padded(p) : p \in {u \in Strings(MaxIdLen) : \A i \in 1..Len(u) : u[i] = "a"}}

\* the text of the id with number i, as crypto.randomUUID() could return it
Uuid(i) == Padded([k \in 1..i |-> "a"])

\* GET /papers/:id, lines 743-755: 404 for an id not of the shape and when
\* metadata.json cannot be read, else 200 with its content
GetPaper(i) ==
  IF ~isValidId(Uuid(i)) THEN 404
  ELSE IF ~resolvePaperDir(Uuid(i)).ok THEN 404
  ELSE IF dirs[i].exists /\ "metadata.json" \in dirs[i].files THEN 200
  ELSE 404

InputIds ==
  Strings(MaxIdLen)
    \cup {Padded(p) : p \in Strings(MaxIdLen)}
    \cup {Append(Padded(p), "0") : p \in Strings(MaxIdLen)}
    \cup {DotDotEtc, NotAValidId, SiblingId}

\* ------------------------------------------------ ids and paths: steps
\* resolvePaperDir called with the id as it is
ResolveDirect ==
  /\ answer = "pending"
  /\ called' = "resolvePaperDir"
  /\ LET r == resolvePaperDir(reqId)
     IN  /\ answer' = IF r.ok THEN "resolved" ELSE "InvalidPath"
         /\ touched' = r.path
  /\ UNCHANGED reqId

\* GET /papers/:id (745-747), GET .../cover (759-761), GET .../file (797-799),
\* DELETE /papers/:id (914-916): the id is checked, then resolved; an error of
\* resolvePaperDir is caught by the handler
HandleById(route) ==
  /\ answer = "pending"
  /\ called' = route
  /\ IF reqId = <<>> \/ ~isValidId(reqId)
       THEN answer' = "rejected" /\ touched' = NoPath
       ELSE LET r == resolvePaperDir(reqId)
            IN  /\ answer' = IF r.ok THEN "resolved" ELSE "caught"
                /\ touched' = r.path
  /\ UNCHANGED reqId

\* POST /papers, lines 858-859: the id is generated, then resolved
HandlePost(uuid) ==
  /\ answer = "pending"
  /\ called' = "post"
  /\ reqId' = uuid
  /\ LET r == resolvePaperDir(uuid)
     IN  /\ answer' = IF r.ok THEN "resolved" ELSE "caught"
         /\ touched' = r.path

InitResolve ==
  /\ docs = {}
  /\ InitCoordinator({COVERGEN_DEFAULT_CONCURRENCY}, {TRUE}, SeedCovers)
  /\ InitIndexStore(0)
  /\ InitStore
  /\ InitRemote({NoRemote})
  /\ InitAux
  /\ reqId \in InputIds
  /\ called = "none"
  /\ answer = "pending"
  /\ touched = NoPath
  /\ InitReader

NextResolve ==
  \/ ResolveDirect /\ UNCHANGED <<coverVars, indexVars, storeVars, remoteVars, readVars, auxVars>>
  \/ \E route \in Routes : HandleById(route) /\ UNCHANGED <<coverVars, indexVars, storeVars, remoteVars, readVars, auxVars>>
  \/ \E uuid \in UuidStrings : HandlePost(uuid) /\ UNCHANGED <<coverVars, indexVars, storeVars, remoteVars, readVars, auxVars>>

SpecResolve == InitResolve /\ [][NextResolve]_vars

\* ------------------------------------------------ the routes that take an id
\* an id of 36 characters of which the first is no hexadecimal digit
BadCharId == Padded(<<"g">>)

\* ids that are not of the shape: too short and with characters outside the
\* class, or of the right length with one character outside the class
MalformedIds == {DotDotEtc, BadCharId}

\* the ids of the documents in the store at start-up
StoredIds == {1, 2}

\* the ids sent with a request: those of the stored documents and the
\* malformed ones
RouteIds == {Uuid(i) : i \in StoredIds} \cup MalformedIds

\* the document directory a path names: that of document i for Uuid(i), and
\* for every other text a directory that does not exist
IdOf(s) == IF \E i \in StoredIds : Uuid(i) = s
           THEN CHOOSE i \in StoredIds : Uuid(i) = s
           ELSE Ghost

\* what the four routes compute from the id of a request before they do
\* anything else: the shape test, the resolved directory, the document named
Parsed == [s \in RouteIds |-> [valid |-> isValidId(s),
                               dir |-> resolvePaperDir(s),
                               doc |-> IdOf(s)]]

\* fsp.rm(paperDir, { recursive: true }), line 917, seen from the cover route:
\* the source file and the cover are gone with the directory
RemoveCover(i) ==
  /\ docs' = docs \ {i}
  /\ coverFile' = [coverFile EXCEPT ![i] = "missing"]
  /\ UNCHANGED <<maxConcurrency, covergenAvailable, covergenFailures, covergenInFlight,
                 covergenActive, covergenWaiters, jobs, nJobs, microtasks, now, nTicks,
                 handlers, nHandlers, sent>>

\* a request arrives at GET /papers/:id (743-755), GET /papers/:id/cover
\* (757-793), GET /papers/:id/file (795-815) or DELETE /papers/:id (912-928):
\* an id that is not of the shape is answered 404 at once (745, 759, 797, 914);
\* otherwise the directory is resolved and the route does its work. The two
\* reading routes change nothing on the server. At most MaxRequests cover
\* requests and deletions are taken.
ServeRoute(route, s) ==
  /\ Idle
  /\ reqId' = s
  /\ called' = route
  /\ IF ~Parsed[s].valid
       THEN /\ answer' = "rejected"
            /\ touched' = NoPath
            /\ UNCHANGED <<coverVars, indexVars, storeVars>>
       ELSE LET r == Parsed[s].dir
                i == Parsed[s].doc
            IN  /\ answer' = IF r.ok THEN "resolved" ELSE "caught"
                /\ touched' = r.path
                /\ IF r.ok /\ route = "cover"
                     THEN /\ nHandlers + nOps < MaxRequests
                          /\ GetCover(i)
                          /\ UNCHANGED <<indexVars, storeVars>>
                     ELSE IF r.ok /\ route = "delete"
                     THEN /\ nHandlers + nOps < MaxRequests
                          /\ DeletePaper(i, TRUE)
                          /\ RemoveCover(i)
                     ELSE UNCHANGED <<coverVars, indexVars, storeVars>>

\* two documents with the static placeholder as cover are in the store and in
\* the index; the renderer has one slot; no secondary store
InitRoutes ==
  /\ docs = StoredIds
  /\ InitCoordinator({1}, {TRUE}, SeedCovers)
  /\ indexFile = File(<<2, 1>>)
  /\ tmpFile = Absent
  /\ indexWriteChain = 0
  /\ released = {0}
  /\ ops = [o \in OpIds |-> NoOp]
  /\ nOps = 0
  /\ nextId = 2
  /\ faults = 0
  /\ applied = <<2, 1>>
  /\ dirs = [i \in DirIds |-> IF i \in StoredIds THEN Dir(Files) ELSE NoDir]
  /\ responses = {}
  /\ InitResolver
  /\ InitReader
  /\ InitRemote({NoRemote})
  /\ InitAux

NextRoutes ==
  \/ \E route \in Routes, s \in RouteIds :
       ServeRoute(route, s) /\ UNCHANGED <<readVars, remoteVars, auxVars>>
  \/ \E r \in HandlerIds : GenerateCover(r) /\ UNCHANGED notCoverVars
  \/ \E j \in JobIds, code \in {0, 1} : ProcExit(j, code) /\ UNCHANGED notCoverVars
  \/ \E j \in JobIds : ProcError(j) /\ UNCHANGED notCoverVars
  \/ RunResume /\ UNCHANGED notCoverVars
  \/ RunSpawn /\ UNCHANGED notCoverVars
  \/ RunSettle /\ UNCHANGED notCoverVars
  \/ RunDone /\ UNCHANGED notCoverVars
  \/ \E o \in OpIds :
       EnterSection(o) /\ UNCHANGED <<coverVars, pathVars, readVars, storeVars, remoteVars, auxVars>>
  \/ \E o \in OpIds :
       WriteTmp(o, TRUE) /\ UNCHANGED <<coverVars, pathVars, readVars, storeVars, remoteVars, auxVars>>
  \/ \E o \in OpIds :
       Rename(o, TRUE) /\ UNCHANGED <<coverVars, pathVars, readVars, storeVars, remoteVars, auxVars>>
  \/ \E o \in OpIds : Release(o) /\ UNCHANGED <<coverVars, pathVars, readVars, auxVars>>

SpecRoutes == InitRoutes /\ [][NextRoutes]_vars

\* ---------------------------------------------------------------- tags
\* String.prototype.split(','), line 853: the pieces between the commas
RECURSIVE SplitComma(_, _, _)
SplitComma(s, i, cur) ==
  IF i > Len(s) THEN <<cur>>
  ELSE IF s[i] = "," THEN <<cur>> \o SplitComma(s, i + 1, <<>>)
  ELSE SplitComma(s, i + 1, Append(cur, s[i]))

\* String.prototype.trim, line 854: white space is cut off at both ends
RECURSIVE TrimStart(_)
TrimStart(t) == IF t # <<>> /\ Head(t) = " " THEN TrimStart(Tail(t)) ELSE t

RECURSIVE TrimEnd(_)
TrimEnd(t) ==
  IF t # <<>> /\ t[Len(t)] = " " THEN TrimEnd(SubSeq(t, 1, Len(t) - 1)) ELSE t

Trim(t) == TrimEnd(TrimStart(t))

\* .map((tag) => tag.trim()), line 854
RECURSIVE Trimmed(_)
Trimmed(pieces) ==
  IF pieces = <<>> THEN <<>> ELSE <<Trim(Head(pieces))>> \o Trimmed(Tail(pieces))

\* .filter((tag) => tag.length > 0), line 855
RECURSIVE NonEmpty(_)
NonEmpty(pieces) ==
  IF pieces = <<>> THEN <<>>
  ELSE IF Len(Head(pieces)) > 0 THEN <<Head(pieces)>> \o NonEmpty(Tail(pieces))
  ELSE NonEmpty(Tail(pieces))

\* .slice(0, n), line 856
Slice(seq, n) == SubSeq(seq, 1, IF Len(seq) < n THEN Len(seq) ELSE n)

\* POST /papers, lines 852-856: the tags of the record
ParseTags(raw) == Slice(NonEmpty(Trimmed(SplitComma(raw, 1, <<>>))), TAG_LIMIT)

TagChars == {"x", "y", " ", ","}

\* the strings over TagChars of length at most n
RECURSIVE TagStrings(_)
TagStrings(n) ==
  IF n = 0 THEN {<<>>}
  ELSE LET S == TagStrings(n - 1)
       IN  S \cup {Append(t, c) : t \in {u \in S : Len(u) = n - 1}, c \in TagChars}

Letters == <<"a", "b", "c", "d", "e", "f", "g", "h", "i", "j", "k", "l", "m", "n", "o",
             "p">>

\* the first n letters, each followed by a comma and a space
RECURSIVE Listing(_)
Listing(n) == IF n = 0 THEN <<>> ELSE Listing(n - 1) \o <<Letters[n], ",", " ">>

\* req.body.tags: every short string, and lists of up to MaxTags distinct tags
TagInputs == TagStrings(MaxTagLen) \cup {Listing(n) : n \in 0..MaxTags}

\* the handler computes the tags of the record from the field of the request
ParseRequestTags ==
  /\ tags = NoTags
  /\ tags' = [parsed |-> TRUE, list |-> ParseTags(rawTags)]
  /\ UNCHANGED rawTags

InitTags ==
  /\ docs = {}
  /\ InitCoordinator({COVERGEN_DEFAULT_CONCURRENCY}, {TRUE}, SeedCovers)
  /\ InitIndexStore(0)
  /\ InitResolver
  /\ InitReader
  /\ InitStore
  /\ InitRemote({NoRemote})
  /\ rawTags \in TagInputs
  /\ tags = NoTags
  /\ probe = NoFile
  /\ verdict = NoVerdict
  /\ tmpDir = {}
  /\ nUploads = 0
  /\ posts = [u \in 1..MaxUploads |-> NoPost]
  /\ remoteTmp = Absent
  /\ NoImport

NextTags ==
  \/ ParseRequestTags /\ UNCHANGED <<coverVars, indexVars, pathVars, storeVars, remoteVars,
                                     readVars, pngVars, uploadVars, secondaryVars, importVars>>

SpecTags == InitTags /\ [][NextTags]_vars

\* ------------------------------------------------ the placeholder detector
\* line 407
PNG_SIG == <<137, 80, 78, 71, 13, 10, 26, 10>>

\* 'IHDR' in ascii, line 525
IHDR == <<73, 72, 68, 82>>

\* PLACEHOLDER_COVER_PNG.length, lines 410-413
PLACEHOLDER_LENGTH == 1401

\* Buffer.alloc(64), line 539
HEAD_LENGTH == 64

\* line 523
MIN_HEADER == 29

\* the bytes of a file after its height field: the rest of the IHDR chunk
IhdrRest == <<8, 6, 0, 0, 0, 136, 6, 247, 96>>

\* the first bytes of a file: signature, chunk length, chunk type, width,
\* height, and what follows
Header(sig, type, w, h) == sig \o <<0, 0, 0, 13>> \o type \o w \o h \o IhdrRest

\* the first bytes of PLACEHOLDER_COVER_PNG, a 360x480 image
PlaceholderHead == Header(PNG_SIG, IHDR, <<0, 0, 1, 104>>, <<0, 0, 1, 224>>)

\* the PNG signature, and the first bytes of a JPEG file
Sigs == {PNG_SIG, <<255, 216, 255, 224, 0, 16, 74, 70>>}

\* 'IHDR' and 'IDAT'
Types == {IHDR, <<73, 68, 65, 84>>}

\* 0, 1, 256, 360 and 480 as four bytes, big-endian
Words == {<<0, 0, 0, 0>>, <<0, 0, 0, 1>>, <<0, 0, 1, 0>>, <<0, 0, 1, 104>>, <<0, 0, 1, 224>>}

Headers == {Header(sig, type, w, h) : sig \in Sigs, type \in Types, w \in Words, h \in Words}

Prefix(bytes, n) == SubSeq(bytes, 1, IF n < Len(bytes) THEN n ELSE Len(bytes))

Entry(kind, readable, size, bytes, same) ==
  [kind |-> kind, readable |-> readable, size |-> size, bytes |-> bytes, same |-> same]

\* what can be at the path: nothing, a directory, a file of up to MaxFileLen
\* bytes, or a file as long as the placeholder (equal to it or not); a file
\* may be one the process cannot open
Entries ==
  {Entry("missing", FALSE, 0, <<>>, FALSE), Entry("directory", TRUE, 0, <<>>, FALSE)}
  \cup {Entry("file", r, n, Prefix(h, n), FALSE) :
          r \in BOOLEAN, n \in 0..MaxFileLen, h \in Headers}
  \cup {Entry("file", r, PLACEHOLDER_LENGTH, h, FALSE) : r \in BOOLEAN, h \in Headers}
  \cup {Entry("file", r, PLACEHOLDER_LENGTH, PlaceholderHead, TRUE) : r \in BOOLEAN}

\* lines 539-540: fd.read(head, 0, 64, 0) into a buffer of 64 zero bytes
ReadHead(bytes) == [i \in 1..HEAD_LENGTH |-> IF i <= Len(bytes) THEN bytes[i] ELSE 0]

\* Buffer.readUInt32BE
readUInt32BE(buf, off) ==
  ((buf[off + 1] * 256 + buf[off + 2]) * 256 + buf[off + 3]) * 256 + buf[off + 4]

\* pngDimensionsFromHeader returned null
NoDims == [ok |-> FALSE, width |-> 0, height |-> 0]

\* (mutant) the signature of the file is not compared
pngDimensionsFromHeaderAnySig(buf) ==
  IF Len(buf) < MIN_HEADER THEN NoDims
  ELSE IF SubSeq(buf, 13, 16) # IHDR THEN NoDims
  ELSE LET width == readUInt32BE(buf, 16)
           height == readUInt32BE(buf, 20)
       IN  IF width < 1 \/ height < 1 THEN NoDims
           ELSE [ok |-> TRUE, width |-> width, height |-> height]

\* pngDimensionsFromHeader, lines 522-530
pngDimensionsFromHeader(buf) ==
  IF Len(buf) < MIN_HEADER THEN NoDims
  ELSE IF SubSeq(buf, 1, 8) # PNG_SIG THEN NoDims
  ELSE IF SubSeq(buf, 13, 16) # IHDR THEN NoDims
  ELSE LET width == readUInt32BE(buf, 16)
           height == readUInt32BE(buf, 20)
       IN  IF width < 1 \/ height < 1 THEN NoDims
           ELSE [ok |-> TRUE, width |-> width, height |-> height]

\* isPlaceholderCover, lines 532-548, on what is at the path: stat throws on
\* a missing path; readFile and open throw on a file that cannot be opened;
\* read throws on a directory; every throw is caught and answered false
looksLikePlaceholder(f) ==
  IF f.kind = "missing" THEN FALSE
  ELSE IF f.kind = "file" /\ f.size = PLACEHOLDER_LENGTH /\ ~f.readable THEN FALSE
  ELSE IF f.kind = "file" /\ f.size = PLACEHOLDER_LENGTH /\ f.same THEN TRUE
  ELSE IF ~f.readable THEN FALSE
  ELSE IF f.kind = "directory" THEN FALSE
  ELSE LET dims == pngDimensionsFromHeader(ReadHead(f.bytes))
       IN  dims.ok /\ dims.width = 1 /\ dims.height = 1

\* one call of isPlaceholderCover on the path
Inspect ==
  /\ ~verdict.called
  /\ verdict' = [called |-> TRUE, value |-> looksLikePlaceholder(probe)]
  /\ UNCHANGED probe

InitPng ==
  /\ docs = {}
  /\ InitCoordinator({COVERGEN_DEFAULT_CONCURRENCY}, {TRUE}, SeedCovers)
  /\ InitIndexStore(0)
  /\ InitResolver
  /\ InitReader
  /\ InitStore
  /\ InitRemote({NoRemote})
  /\ rawTags = <<>>
  /\ tags = NoTags
  /\ probe \in Entries
  /\ verdict = NoVerdict
  /\ tmpDir = {}
  /\ nUploads = 0
  /\ posts = [u \in 1..MaxUploads |-> NoPost]
  /\ remoteTmp = Absent
  /\ NoImport

NextPng ==
  \/ Inspect /\ UNCHANGED <<coverVars, indexVars, pathVars, storeVars, remoteVars,
                            readVars, tagVars, uploadVars, secondaryVars, importVars>>

SpecPng == InitPng /\ [][NextPng]_vars

\* ------------------------------------------------ the uploaded files of POST /papers
\* upload.fields, line 817: the two fields multer stores in TMP_DIR (704-712)
Fields == {"pdf", "cover"}

\* what ends the handler before crypto.randomUUID, lines 826-845: a field is
\* missing, the open or read of the content file throws, the content does not
\* start with %PDF. (The test of line 831 cannot be true: multer's own limit,
\* line 716, is the same number of bytes.)
EarlyOutcomes == {"missing", "open", "notpdf"}

\* lines 829 and 844 answer 400, the catch of line 908 answers 500
EarlyStatus(cause) == IF cause = "open" THEN 500 ELSE 400

\* the uploaded files still in TMP_DIR when the handler gives up: the files
\* that arrived, less the content file once line 864 moved it, less the cover
\* once line 865 moved it
AtFailure(stored, cause) ==
  CASE cause \in EarlyOutcomes \cup {"mkdir", "pdf"} -> stored
    [] cause = "cover" -> stored \ {"pdf"}
    [] OTHER -> {}

\* (mutant) the handler answers without calling safeRemove
LeftoverUncleaned(present, failed) == present

\* safeRemove on both paths, lines 645-652, 827-828, 842-843 and 903-904:
\* rm with force, whose error is caught and ignored; what stays in TMP_DIR
\* are the files whose rm failed
Leftover(present, failed) == present \cap failed

\* POST /papers, lines 817-910, on the files stored and the first step that
\* fails (cause), with the set of paths whose rm fails. A removal that fails
\* is not counted in faults. The names in TMP_DIR are fresh UUIDs, no other
\* request can name them, and the steps on them are taken as one with the
\* local steps of CreatePaper.
PostPapers(stored, cause, failed) ==
  /\ nUploads < MaxUploads
  /\ (cause = "missing") <=> (stored # Fields)
  /\ failed \subseteq AtFailure(stored, cause)
  /\ nUploads' = nUploads + 1
  /\ tmpDir' = tmpDir \cup {<<nUploads + 1, f>> :
                              f \in Leftover(AtFailure(stored, cause), failed)}
  /\ IF cause \in EarlyOutcomes
       THEN /\ posts' = [posts EXCEPT ![nUploads + 1] =
                           [arrived |-> TRUE, cause |-> cause, id |-> Ghost,
                            status |-> EarlyStatus(cause), rmFailed |-> failed]]
            /\ cause = "open" => faults < MaxFaults
            /\ faults' = IF cause = "open" THEN faults + 1 ELSE faults
            /\ responses' = responses \cup {Reply("create", Ghost, EarlyStatus(cause))}
            /\ UNCHANGED <<indexFile, tmpFile, indexWriteChain, released, ops, nOps,
                           nextId, applied, dirs>>
       ELSE /\ posts' = [posts EXCEPT ![nUploads + 1] =
                           [arrived |-> TRUE, cause |-> cause, id |-> RandomUUID,
                            status |-> 0, rmFailed |-> failed]]
            /\ CreatePaper(cause)

\* a secondary store is configured and holds nothing
InitUpload ==
  /\ docs = {}
  /\ InitCoordinator({COVERGEN_DEFAULT_CONCURRENCY}, {TRUE}, SeedCovers)
  /\ InitIndexStore(0)
  /\ InitResolver
  /\ InitReader
  /\ InitStore
  /\ InitRemote({REMOTE_DIR})
  /\ InitAux

\* uploads of which any step may fail, the writes of the primary index too;
\* the steps of the mirror do not fail
NextUpload ==
  \/ \E stored \in SUBSET Fields, cause \in EarlyOutcomes \cup CreateOutcomes,
        failed \in SUBSET Fields :
       PostPapers(stored, cause, failed)
         /\ UNCHANGED <<coverVars, pathVars, readVars, remoteVars, tagVars, pngVars,
                       secondaryVars, importVars>>
  \/ \E o \in OpIds :
       EnterSection(o) /\ UNCHANGED <<coverVars, pathVars, readVars, storeVars, remoteVars, auxVars>>
  \/ \E o \in OpIds, ok \in BOOLEAN :
       WriteTmp(o, ok) /\ UNCHANGED <<coverVars, pathVars, readVars, storeVars, remoteVars, auxVars>>
  \/ \E o \in OpIds, ok \in BOOLEAN :
       Rename(o, ok) /\ UNCHANGED <<coverVars, pathVars, readVars, storeVars, remoteVars, auxVars>>
  \/ \E o \in OpIds, ok \in BOOLEAN :
       RemoveTarget(o, ok) /\ UNCHANGED <<coverVars, pathVars, readVars, storeVars, remoteVars, auxVars>>
  \/ \E o \in OpIds, ok \in BOOLEAN :
       RenameAgain(o, ok) /\ UNCHANGED <<coverVars, pathVars, readVars, storeVars, remoteVars, auxVars>>
  \/ \E o \in OpIds : Release(o) /\ UNCHANGED <<coverVars, pathVars, readVars, auxVars>>
  \/ \E o \in OpIds : MirrorCopy(o, TRUE) /\ UNCHANGED <<coverVars, pathVars, readVars, auxVars>>
  \/ \E o \in OpIds : MirrorRead(o) /\ UNCHANGED <<coverVars, pathVars, readVars, auxVars>>
  \/ \E o \in OpIds : MirrorWrite(o, TRUE, FALSE) /\ UNCHANGED <<coverVars, pathVars, readVars, auxVars>>

SpecUpload == InitUpload /\ [][NextUpload]_vars

\* ------------------------------------------------ the seed import
\* SEED_DIRS, import-seeds.js lines 14-18
NumSeedDirs == 3

\* file names as sequences of characters: two PDFs, one with an upper-case
\* extension, and a text file
APdf == <<"a", ".", "p", "d", "f">>
BPdf == <<"b", ".", "P", "D", "F">>
Notes == <<"n", ".", "t", "x", "t">>
SeedNames == {APdf, BPdf, Notes}

\* String.prototype.toLowerCase on the characters file names are made of
LowerChar(c) ==
  CASE c = "P" -> "p"
    [] c = "D" -> "d"
    [] c = "F" -> "f"
    [] OTHER -> c

toLowerCase(name) == [k \in 1..Len(name) |-> LowerChar(name[k])]

endsWith(name, suffix) ==
  /\ Len(name) >= Len(suffix)
  /\ SubSeq(name, Len(name) - Len(suffix) + 1, Len(name)) = suffix

\* line 78: file.toLowerCase().endsWith('.pdf')
IsPdf(file) == endsWith(toLowerCase(file), <<".", "p", "d", "f">>)

\* a seed directory: missing, or the names readdirSync returns, in its order
NoSeedDir == [exists |-> FALSE, files |-> <<>>]
SeedDir(files) == [exists |-> TRUE, files |-> files]

RECURSIVE Listings(_)
Listings(n) ==
  IF n = 0 THEN {<<>>}
  ELSE LET S == Listings(n - 1)
       IN  S \cup {Append(t, f) : t \in {u \in S : Len(u) = n - 1}, f \in SeedNames}

Distinct(files) == \A a, b \in DOMAIN files : a # b => files[a] # files[b]

SeedDirStates ==
  {NoSeedDir} \cup {SeedDir(files) : files \in {t \in Listings(MaxSeedFiles) : Distinct(t)}}

\* a record of the index: its id and its originalFilename
SeedRecord(id, file) == [id |-> id, originalFilename |-> file]

\* lines 58-65: the parsed index, [] when the file is missing or cannot be
\* parsed
ReadSeedIndex == IF seedIndex.state = "complete" THEN seedIndex.items ELSE <<>>

\* line 67: new Set(index.map(i => i.originalFilename))
ExistingFilenames(index) == {index[k].originalFilename : k \in DOMAIN index}

\* (mutant) the name of an imported file is not added to the set
RememberedNot(existing, file) == existing

\* line 111: existingFilenames.add(file)
Remembered(existing, file) == existing \cup {file}

\* lines 77-113: the loop over the files of one directory, from position k;
\* st holds index, existingFilenames and the ids handed out
RECURSIVE ImportFiles(_, _, _)
ImportFiles(files, k, st) ==
  IF k > Len(files) THEN st
  ELSE IF ~IsPdf(files[k]) \/ files[k] \in st.existing THEN ImportFiles(files, k + 1, st)
  ELSE ImportFiles(files, k + 1,
         [index |-> <<SeedRecord(st.next + 1, files[k])>> \o st.index,
          existing |-> Remembered(st.existing, files[k]),
          next |-> st.next + 1])

\* lines 70-114: the loop over SEED_DIRS, from directory d; a missing
\* directory is skipped
RECURSIVE ImportDirs(_, _)
ImportDirs(d, st) ==
  IF d > Len(seedDirs) THEN st
  ELSE IF ~seedDirs[d].exists THEN ImportDirs(d + 1, st)
  ELSE ImportDirs(d + 1, ImportFiles(seedDirs[d].files, 1, st))

\* main, lines 51-118, which is synchronous code: the index is read, the seed
\* directories are walked, the index is written
Imported ==
  ImportDirs(1, [index |-> ReadSeedIndex, existing |-> ExistingFilenames(ReadSeedIndex),
                 next |-> nSeedIds])

RunImport ==
  /\ nRuns < MaxRuns
  /\ nRuns' = nRuns + 1
  /\ seedIndex' = File(Imported.index)
  /\ nSeedIds' = Imported.next
  /\ UNCHANGED seedDirs

\* the index before the first run: missing, unreadable, empty, or with the
\* record of a document uploaded under the name of a seed file
SeedIndexStates == {Absent, Partial, File(<<>>), File(<<SeedRecord(0, APdf)>>)}

InitImport ==
  /\ docs = {}
  /\ InitCoordinator({COVERGEN_DEFAULT_CONCURRENCY}, {TRUE}, SeedCovers)
  /\ InitIndexStore(0)
  /\ InitResolver
  /\ InitReader
  /\ InitStore
  /\ InitRemote({NoRemote})
  /\ rawTags = <<>>
  /\ tags = NoTags
  /\ probe = NoFile
  /\ verdict = NoVerdict
  /\ tmpDir = {}
  /\ nUploads = 0
  /\ posts = [u \in 1..MaxUploads |-> NoPost]
  /\ remoteTmp = Absent
  /\ seedDirs \in [1..NumSeedDirs -> SeedDirStates]
  /\ seedIndex \in SeedIndexStates
  /\ nRuns = 0
  /\ nSeedIds = 0

NextImport ==
  \/ RunImport /\ UNCHANGED <<coverVars, indexVars, pathVars, storeVars, remoteVars,
                              readVars, tagVars, pngVars, uploadVars, secondaryVars>>

SpecImport == InitImport /\ [][NextImport]_vars

\* ================================================================ claims
LiveJob(j) == jobs[j].pc \in {"waiting", "woken", "acquired", "running", "settled",
                              "released"}
HoldsSlot(j) == jobs[j].pc \in {"acquired", "running", "settled"}
Running(j) == jobs[j].proc = "running"

C2_OneJobPerId ==
  /\ \A i \in AllIds :
       /\ Cardinality({j \in JobIds : LiveJob(j) /\ jobs[j].id = i}) <= 1
       /\ Cardinality({j \in JobIds : Running(j) /\ jobs[j].id = i}) <= 1
  /\ \A j \in JobIds :
       LiveJob(j) => /\ covergenInFlight[jobs[j].id] = j
                     /\ Cardinality({r \in HandlerIds : Awaits(r, j)}) = jobs[j].callers
  /\ \A r \in HandlerIds :
       handlers[r].pc = "await" => /\ LiveJob(handlers[r].job)
                                   /\ jobs[handlers[r].job].id = handlers[r].id

\* two calls share one job whose renderer is running
C2_Witness ==
  \E j \in JobIds : /\ Running(j)
                    /\ Cardinality({r \in HandlerIds : Awaits(r, j)}) >= 2

\* C7: a backoff entry changes only when a renderer invocation for the id has
\* failed, to the time of the failure plus 10 minutes; a call made strictly
\* before the entry creates no job, takes no slot and spawns nothing; a call
\* made once the entry has passed, with no job in flight, starts a job, which
\* spawns next when a slot is free and otherwise waits in line.
C7_Backoff ==
  [][ /\ \A i \in AllIds :
           covergenFailures'[i] # covergenFailures[i] =>
             /\ HeadIs("settle")
             /\ jobs[Head(microtasks).n].id = i
             /\ jobs[Head(microtasks).n].settled = "rejected"
             /\ covergenFailures'[i] = now + 600000
      /\ \A r \in HandlerIds :
           (handlers[r].pc = "call" /\ handlers'[r].pc # "call") =>
             LET i == handlers[r].id IN
               /\ covergenFailures[i] > now =>
                    /\ UNCHANGED <<covergenActive, covergenWaiters, covergenInFlight,
                                   jobs, nJobs, microtasks>>
                    /\ handlers'[r].pc = "responded"
               /\ ( /\ covergenFailures[i] # 0
                    /\ covergenFailures[i] <= now
                    /\ covergenInFlight[i] = NoJob
                    /\ covergenAvailable
                    /\ i \in docs ) =>
                    /\ nJobs' = nJobs + 1
                    /\ covergenInFlight'[i] = nJobs'
                    /\ jobs'[nJobs'].id = i
                    /\ IF covergenActive < maxConcurrency
                         THEN microtasks' = <<Task("spawn", nJobs')>>
                         ELSE covergenWaiters' = Append(covergenWaiters, nJobs')
    ]_vars

\* a job runs for an id whose backoff entry has passed
C7_Witness ==
  \E j \in JobIds : /\ Running(j)
                    /\ covergenFailures[jobs[j].id] # 0
                    /\ covergenFailures[jobs[j].id] <= now

\* C8: no job's promise is rejected, whatever the renderer did, and every cover
\* request for a shape-valid id is answered 200 with the cover file or the static
\* placeholder.
C8_NeverRaises ==
  /\ \A j \in JobIds : jobs[j].promise # "rejected"
  /\ \A resp \in sent : resp.status = 200 /\ resp.body \in {"cover", "placeholder"}

\* a renderer invocation failed and its request was answered with the placeholder
C8_Witness ==
  /\ \E i \in Ids : covergenFailures[i] # 0
  /\ \E j \in JobIds : jobs[j].pc = "done"
  /\ [status |-> 200, body |-> "placeholder"] \in sent

Over(o) == ops[o].pc \in {"done", "failed"}

\* C3: once every mutation that was started is over, the index on disk is the
\* result of applying the mutations that returned without error, one after
\* another in lock order.
C3_SerialOutcome ==
  (\A o \in OpIds : ops[o].pc = "none" \/ Over(o)) => indexFile = File(applied)

\* C4: at most one caller is inside the section, and a caller is past its wait
\* only when every caller that called withIndexLock before it is over.
C4_MutexFifo ==
  /\ Cardinality({o \in OpIds : InSection(o)}) <= 1
  /\ \A o, q \in OpIds :
       (q < o /\ (InSection(o) \/ Over(o))) => Over(q)

\* one caller is inside the section and two more wait behind it
C4_Witness ==
  \E o \in OpIds : /\ InSection(o)
                   /\ Cardinality({q \in OpIds : ops[q].pc = "queued"}) >= 2

\* C5: the index file exists and holds a complete JSON array in every state.
C5_IndexAlwaysComplete == indexFile.state = "complete"

\* C6: when atomicWriteJson has failed, the index file is what it was when
\* the mutation read it.
C6_FailureLeavesOriginal ==
  \A o \in OpIds : ops[o].pc = "throw" => indexFile = ops[o].before

\* C10: no two records of the index have the same id.
C10_UniqueIds ==
  \A p, q \in DOMAIN indexFile.items :
    p # q => indexFile.items[p] # indexFile.items[q]

\* two records are in the index after a third was created and deleted
C10_Witness ==
  /\ Len(indexFile.items) >= 2
  /\ \E o \in OpIds : ops[o].kind = "delete" /\ ops[o].pc = "done" /\ ops[o].id # 0
  /\ nextId >= 3

\* the path lies below the papers root, and is not the root itself
StrictlyInside(p) ==
  /\ StartsWith(p, PathResolve(PAPERS_DIR) \o <<"/">>)
  /\ Len(p) > Len(PathResolve(PAPERS_DIR)) + 1

Recorded(file) == {file.items[k] : k \in DOMAIN file.items}

\* C11: an id enters the primary index only while its directory holds the
\* content file, the cover and the metadata snapshot, and the id of an upload
\* of which a local step failed is in no file of the index, whatever the
\* failed step left in the directory.
C11_InsertAfterPopulate ==
  [][/\ \A i \in Recorded(indexFile') \ Recorded(indexFile) : dirs[i] = Dir(Files)
     /\ \A r \in responses' :
          (r.kind = "create" /\ \A o \in OpIds : ops'[o].id # r.id) =>
            /\ r.id \notin Recorded(indexFile') \cup Recorded(tmpFile')
            /\ dirs'[r.id] # Dir(Files)]_vars

\* an upload failed after mkdir and left a partial directory, and a later
\* upload is in the index
C11_Witness ==
  \E i, j \in DirIds :
    /\ i < j
    /\ dirs[i] = Dir({"paper.pdf"})
    /\ Reply("create", i, 500) \in responses
    /\ j \in Recorded(indexFile)
    /\ dirs[j] = Dir(Files)

\* C19: a DELETE of an id whose record is not in the index writes the index
\* as it read it and answers 204, and a DELETE is answered 500 only when a
\* file-system call of the request failed: a directory that is already gone
\* is no failure.
C19_DeleteTolerant ==
  /\ [](\A o \in OpIds :
          (/\ ops[o].kind = "delete"
           /\ ops[o].pc \notin {"none", "queued"}
           /\ ops[o].id \notin Recorded(ops[o].before)) =>
            /\ ops[o].next = ops[o].before.items
            /\ ops[o].pc = "done" =>
                 /\ Reply("delete", ops[o].id, 204) \in responses
                 /\ dirs[ops[o].id] = NoDir)
  /\ [][\A i \in DirIds :
          Reply("delete", i, 500) \in responses' \ responses =>
            \/ faults' > faults
            \/ \E o \in OpIds : ops[o].id = i /\ ops[o].pc = "throw"]_vars

\* the same document was deleted twice, the second time with its directory and
\* its record gone, while another record stayed in the index
C19_Witness ==
  \E o1, o2 \in OpIds :
    /\ o1 < o2
    /\ ops[o1].kind = "delete" /\ ops[o1].pc = "done"
    /\ ops[o2].kind = "delete" /\ ops[o2].pc = "done"
    /\ ops[o1].id = ops[o2].id
    /\ ops[o1].id \in Recorded(ops[o1].before)
    /\ ops[o2].id \notin Recorded(ops[o2].before)
    /\ Len(ops[o2].next) >= 1
    /\ indexFile = File(ops[o2].next)

\* the position of a record in a sequence of record ids
Pos(index, id) == CHOOSE k \in DOMAIN index : index[k] = id

\* new holds the records of old other than id, in the order they have in old
KeepsOthers(old, new, id) ==
  /\ Recorded([items |-> new]) = Recorded([items |-> old]) \ {id}
  /\ Len(new) = Cardinality(Recorded([items |-> new]))
  /\ \A a, b \in Recorded([items |-> new]) :
       Pos(old, a) < Pos(old, b) <=> Pos(new, a) < Pos(new, b)

\* C15: once the DELETE of a document that was in the index has answered 204,
\* the index does not hold its id, its directory is gone, resolvePaperDir
\* still returns a path for the id and GET /papers/:id answers 404; the write
\* of that DELETE leaves in the index the other records it read, in their order.
C15_DeleteRemoves ==
  /\ [](\A o \in OpIds :
          (/\ ops[o].kind = "delete"
           /\ ops[o].id \in Recorded(ops[o].before)
           /\ Reply("delete", ops[o].id, 204) \in responses) =>
            /\ ops[o].id \notin Recorded(indexFile)
            /\ dirs[ops[o].id] = NoDir
            /\ resolvePaperDir(Uuid(ops[o].id)).ok
            /\ GetPaper(ops[o].id) = 404)
  /\ [][\A o \in OpIds :
          (ops[o].kind = "delete" /\ ops[o].pc # "return" /\ ops'[o].pc = "return") =>
            /\ indexFile'.state = "complete"
            /\ KeepsOthers(ops[o].before.items, indexFile'.items, ops[o].id)]_vars

\* a document that was neither the first nor the last of three in the index
\* has been deleted and the DELETE has answered 204
C15_Witness ==
  \E o \in OpIds :
    /\ ops[o].kind = "delete"
    /\ ops[o].pc = "done"
    /\ Len(ops[o].before.items) = 3
    /\ ops[o].before.items[2] = ops[o].id
    /\ indexFile = File(ops[o].next)
    /\ Reply("delete", ops[o].id, 204) \in responses
    /\ GetPaper(ops[o].before.items[1]) = 200

\* the mirror call of o is between its start and its return
Mirroring(o) == mirrors[o].pc \in {"copy", "read", "write"}

\* C12: whatever step of mirrorToRemote or removeRemotePaper fails, the upload
\* is answered 201 and the deletion 204, no request is answered 500, and no
\* step of a mirror call changes the primary index, its temporary file or a
\* primary document directory.
C12_MirrorFailureIsSoft ==
  /\ [](/\ \A r \in responses : r.status # 500
        /\ \A o \in OpIds :
             mirrors[o].pc \in {"done", "failed"} =>
               Reply(ops[o].kind, ops[o].id,
                     IF ops[o].kind = "create" THEN 201 ELSE 204) \in responses)
  /\ [][(\E o \in OpIds : Mirroring(o) /\ mirrors'[o] # mirrors[o]) =>
          UNCHANGED <<indexFile, tmpFile, dirs, ops, applied>>]_vars

\* the mirror of an upload failed and the upload was answered 201, and the
\* unmirror of a deletion failed and the deletion was answered 204
C12_Witness ==
  \E o1, o2 \in OpIds :
    /\ ops[o1].kind = "create" /\ mirrors[o1].pc = "failed"
    /\ Reply("create", ops[o1].id, 201) \in responses
    /\ ops[o2].kind = "delete" /\ mirrors[o2].pc = "failed"
    /\ Reply("delete", ops[o2].id, 204) \in responses
    /\ indexFile = File(applied)

\* C13 (as stated): when uploads only were made and the mirror of each has
\* returned without a file-system failure, the secondary index holds a record
\* for each of them.
C13_NoLostMirror ==
  (/\ faults = 0
   /\ \A o \in OpIds :
        ops[o].pc # "none" => ops[o].kind = "create" /\ mirrors[o].pc = "done") =>
    \A o \in OpIds : ops[o].pc # "none" => ops[o].id \in Recorded(remoteIndex)

\* a DELETE of the document has been received
DeleteRequested(i) ==
  \/ \E o \in OpIds : ops[o].kind = "delete" /\ ops[o].id = i
  \/ Reply("delete", i, 500) \in responses

\* C14 (as stated): the write of an upload puts its record before the records
\* it read, which it leaves as they were, and at the moment the upload is
\* answered 201 the index lists its id, unless a DELETE of it was received.
C14_CreatePrepends ==
  /\ [][\A o \in OpIds :
          (ops[o].kind = "create" /\ ops[o].pc # "return" /\ ops'[o].pc = "return") =>
            indexFile' = File(<<ops[o].id>> \o ops[o].before.items)]_vars
  /\ [][\A i \in DirIds :
          (Reply("create", i, 201) \in responses' \ responses /\ ~DeleteRequested(i)') =>
            i \in Recorded([items |-> readIndex'])]_vars

\* C18: the listing is answered 200 whatever the index file holds, with the
\* records of the file when it holds an array and with the empty sequence
\* when it is missing, does not parse or holds something other than an array.
C18_ReadNeverThrows ==
  listed # NotListed =>
    /\ listed.status = 200
    /\ indexFile.state \in {"absent", "partial", "object"} => listed.body = <<>>
    /\ indexFile.state = "complete" => listed.body = indexFile.items

\* the index file held an object wrapping two records and the listing was
\* answered with the empty sequence
C18_Witness ==
  /\ listed = [status |-> 200, body |-> <<>>]
  /\ indexFile.state = "object"
  /\ Len(indexFile.items) = 2

\* C20: a call of generateCoverWithPython made while the renderer is not
\* available, or for an id without source file, creates no job and no process
\* and leaves the active count, the waiters, the in-flight map and the backoff
\* map as they were; the handler answers at once.
C20_UnavailableIsNoOp ==
  [][\A r \in HandlerIds :
       (/\ handlers[r].pc = "call"
        /\ handlers'[r].pc # "call"
        /\ ~covergenAvailable \/ handlers[r].id \notin docs) =>
         /\ UNCHANGED <<covergenActive, covergenWaiters, covergenInFlight,
                        covergenFailures, jobs, nJobs, microtasks>>
         /\ handlers'[r] = Responded]_vars

\* with no renderer every request has been answered with the placeholder and
\* no job was created
C20_Witness ==
  /\ ~covergenAvailable
  /\ nHandlers = MaxCalls
  /\ \A r \in HandlerIds : handlers[r] = Responded
  /\ nJobs = 0
  /\ covergenActive = 0
  /\ sent = {[status |-> 200, body |-> "placeholder"]}

\* C16: the upload of a document with a 1x1 cover stores the static
\* placeholder as its cover, the cover file of such a document is never the
\* 1x1 image, and no cover request is answered with a 1x1 image, whether the
\* renderer is absent, fails or succeeds.
C16_NoOneByOneCover ==
  /\ [](/\ \A i \in Uploads \cap docs : coverFile[i] \in {"placeholder", "real"}
        /\ \A m \in sent : m.status = 200 /\ m.body \in {"placeholder", "cover"})
  /\ [][\A i \in Uploads :
          (i \notin docs /\ i \in docs') => coverFile'[i] = "placeholder"]_vars

\* the document was uploaded with a 1x1 cover, the renderer failed for it, and
\* every request was answered with the static placeholder
C16_Witness ==
  /\ Uploads \subseteq docs
  /\ \E i \in Uploads : covergenFailures[i] # 0 /\ coverFile[i] = "placeholder"
  /\ nHandlers >= 1
  /\ \A r \in HandlerIds : handlers[r] \in {NoHandler, Responded}
  /\ sent = {[status |-> 200, body |-> "placeholder"]}

\* C17: a request for a cover that is missing, 1x1 or byte-equal to the
\* placeholder calls the renderer instead of sending the file; with the
\* renderer present, the source file there and no backoff, the call starts or
\* joins a job; and when the renderer of the job has exited with code 0, the
\* cover file is a real image, isPlaceholderCover is false of it, and the
\* requests that awaited the job are answered with it.
C17_RegeneratesPlaceholder ==
  [][\A r \in HandlerIds :
       /\ (handlers[r] = NoHandler /\ handlers'[r].pc = "call") =>
            coverFile[handlers'[r].id] \in {"missing", "placeholder", "oneByOne"}
       /\ (handlers[r] = NoHandler /\ handlers'[r] = Responded) =>
            /\ \E i \in docs : coverFile[i] = "real"
            /\ [status |-> 200, body |-> "cover"] \in sent'
       /\ (/\ handlers[r].pc = "call" /\ handlers'[r].pc # "call"
           /\ covergenAvailable
           /\ handlers[r].id \in docs
           /\ covergenFailures[handlers[r].id] <= now) =>
            /\ handlers'[r].pc = "await"
            /\ handlers'[r].job # NoJob
            /\ covergenInFlight'[handlers[r].id] = handlers'[r].job
       /\ (/\ handlers[r].pc = "await" /\ handlers'[r] = Responded
           /\ jobs[handlers[r].job].settled = "resolved") =>
            /\ coverFile'[handlers[r].id] = "real"
            /\ ~isPlaceholderCover(coverFile'[handlers[r].id])
            /\ [status |-> 200, body |-> "cover"] \in sent']_vars

\* the covers of a document with a 1x1 cover file and of one without cover
\* file have been generated and sent
C17_Witness ==
  /\ \E i, k \in Ids \ Uploads :
       /\ FoundCover(i) = "oneByOne" /\ coverFile[i] = "real"
       /\ FoundCover(k) = "missing" /\ coverFile[k] = "real"
  /\ sent = {[status |-> 200, body |-> "cover"]}
  /\ \A r \in HandlerIds : handlers[r] \in {NoHandler, Responded}

\* C21: the slots in use are exactly the jobs between covergenAcquire and
\* covergenRelease, whatever way their renderer ended (exit 0, another exit
\* code, spawn error, timeout): the step that ends a job's try block lowers the
\* count by one, a job that released holds no slot again, and the count is
\* never cut off at 0. When every renderer process ends, every call is
\* answered and every job that waits for a slot gets one: a call stays
\* pending until it is answered and a job stays in line until it is woken, so
\* again and again no call is pending and no job is in line.
C21_SlotReleasedOnce ==
  /\ [](covergenActive = Cardinality({j \in JobIds : HoldsSlot(j)}))
  /\ [][\A j \in JobIds :
          /\ (jobs[j].pc = "settled" /\ jobs'[j].pc # "settled") =>
               /\ jobs'[j].pc = "released"
               /\ covergenActive' = covergenActive - 1
               /\ covergenActive >= 1
          /\ jobs[j].pc \in {"released", "done"} => jobs'[j].pc \in {"released", "done"}]_vars
  /\ []<>(\A r \in HandlerIds : handlers[r].pc \notin {"call", "await"})
  /\ []<>(\A j \in JobIds : jobs[j].pc \notin {"waiting", "woken"})
  /\ [][\A j \in JobIds :
          (jobs[j].pc \in {"waiting", "woken"} /\ jobs'[j].pc \notin {"waiting", "woken"}) =>
            HoldsSlot(j)']_vars

\* the renderer of the first job was killed by its timer, the job gave its
\* slot back, and the job that waited behind it holds the slot
C21_Witness ==
  \E j, k \in JobIds :
    /\ j < k
    /\ jobs[j].pc = "done" /\ jobs[j].proc = "killed"
    /\ jobs[k].pc = "running"
    /\ covergenActive = 1
    /\ maxConcurrency = 1

\* the state of the coordinator other than the renderer processes
Coordinator == <<covergenFailures, covergenInFlight, covergenActive, covergenWaiters,
                 microtasks, handlers, sent, nJobs, coverFile>>

\* C22: a renderer is killed only when COVERGEN_TIMEOUT_MS have passed since
\* its spawn, and the kill rejects the promise its job awaits; the job then
\* sets the backoff entry of its id to ten minutes from then and gives its slot
\* back, and ends with its promise fulfilled and its id out of the in-flight
\* map; the exit event of the killed process changes nothing of the
\* coordinator and nothing of any job but the process itself.
C22_TimeoutIsFailure ==
  [][\A j \in JobIds :
       /\ (jobs[j].proc # "killed" /\ jobs'[j].proc = "killed") =>
            /\ jobs[j].proc = "running"
            /\ now' = jobs[j].spawnedAt + 25000
            /\ jobs'[j].settled = "rejected"
            /\ microtasks' = <<Task("settle", j)>>
            /\ covergenInFlight'[jobs[j].id] = j
       /\ (jobs[j].proc = "killed" /\ jobs[j].pc = "settled" /\ jobs'[j].pc # "settled") =>
            /\ covergenFailures'[jobs[j].id] = now + 600000
            /\ covergenActive' = covergenActive - 1
            /\ jobs'[j].pc = "released"
       /\ (jobs[j].proc = "killed" /\ jobs[j].pc = "released" /\ jobs'[j].pc # "released") =>
            /\ jobs'[j].pc = "done"
            /\ jobs'[j].promise = "fulfilled"
            /\ covergenInFlight'[jobs[j].id] = NoJob
            /\ \A r \in HandlerIds : Awaits(r, j) => handlers'[r] = Responded
       /\ (jobs[j].proc = "killed" /\ jobs'[j].proc # "killed") =>
            /\ UNCHANGED Coordinator
            /\ jobs' = [jobs EXCEPT ![j].proc = jobs'[j].proc]]_vars

\* the renderer of a job was killed by its timer 25 s after the spawn: the job
\* is over, the backoff entry of its id is set, no slot is in use and its
\* request was answered with the placeholder
C22_Witness ==
  \E j \in JobIds, i \in Ids :
    /\ jobs[j].pc = "done" /\ jobs[j].proc = "killed"
    /\ now = 1000 + 25000
    /\ covergenFailures[i] = now + 600000
    /\ covergenInFlight[i] = NoJob
    /\ covergenActive = 0
    /\ [status |-> 200, body |-> "placeholder"] \in sent

\* C23: the in-flight map holds an id exactly while a job for it exists that
\* is not over, and it holds that job; the entry is made in the step that
\* creates the job and removed in the step that ends it; a call for an id with
\* no entry, no active backoff, the renderer found and the source file there
\* creates a new job.
C23_InFlightWhileRunning ==
  /\ [](\A i \in AllIds :
          /\ covergenInFlight[i] # NoJob =>
               LiveJob(covergenInFlight[i]) /\ jobs[covergenInFlight[i]].id = i
          /\ covergenInFlight[i] = NoJob => \A j \in JobIds : LiveJob(j) => jobs[j].id # i)
  /\ [][\A i \in AllIds :
          /\ (covergenInFlight[i] = NoJob /\ covergenInFlight'[i] # NoJob) =>
               /\ covergenInFlight'[i] = nJobs + 1
               /\ jobs[nJobs + 1] = NoJobRec
               /\ jobs'[nJobs + 1].id = i
          /\ (covergenInFlight[i] # NoJob /\ covergenInFlight'[i] # covergenInFlight[i]) =>
               /\ covergenInFlight'[i] = NoJob
               /\ jobs'[covergenInFlight[i]].pc = "done"
               /\ jobs'[covergenInFlight[i]].promise # "pending"
          /\ \A r \in HandlerIds :
               (/\ handlers[r].pc = "call" /\ handlers'[r].pc # "call"
                /\ handlers[r].id = i
                /\ covergenInFlight[i] = NoJob
                /\ ~(covergenFailures[i] > now)
                /\ covergenAvailable /\ i \in docs) =>
                 /\ nJobs' = nJobs + 1
                 /\ covergenInFlight'[i] = nJobs'
                 /\ handlers'[r].job = nJobs']_vars

\* the first job for a document failed and is over, its backoff has passed,
\* and a second job for the same document is in the map with its renderer
\* running
C23_Witness ==
  \E i \in Ids :
    /\ covergenInFlight[i] = 2
    /\ jobs[1].pc = "done"
    /\ nJobs = 2
    /\ Running(2)
    /\ covergenFailures[i] # 0 /\ covergenFailures[i] <= now
    /\ \A k \in docs \ {i} : covergenFailures[k] = 0 /\ coverFile[k] = "placeholder"

\* C24: the jobs in covergenWaiters are the jobs that wait, in the order in
\* which they began to wait (jobs are numbered in the order of their calls); a
\* job is woken only when no job that began to wait before it still waits, and
\* takes its slot only when every such job has taken its own.
C24_WaitersFifo ==
  /\ [](/\ \A p, q \in DOMAIN covergenWaiters :
             p < q => covergenWaiters[p] < covergenWaiters[q]
        /\ \A j \in JobIds :
             jobs[j].pc = "waiting" <=> \E p \in DOMAIN covergenWaiters : covergenWaiters[p] = j)
  /\ [][\A k \in JobIds :
          /\ (jobs[k].pc = "waiting" /\ jobs'[k].pc # "waiting") =>
               /\ jobs'[k].pc = "woken"
               /\ \A j \in JobIds : j < k => jobs[j].pc # "waiting"
          /\ (jobs[k].pc = "woken" /\ jobs'[k].pc # "woken") =>
               /\ jobs'[k].pc = "acquired"
               /\ \A j \in JobIds : j < k => jobs[j].pc \notin {"waiting", "woken"}]_vars

\* with one slot, two jobs waited behind the first: the first is over, the
\* second has the slot and its renderer runs, the third still waits
C24_Witness ==
  /\ maxConcurrency = 1
  /\ jobs[1].pc = "done"
  /\ jobs[2].pc = "running" /\ Running(2)
  /\ covergenWaiters = <<3>>
  /\ covergenActive = 1

\* C28: a cover request that finds a real image is answered in the step in
\* which it arrives, with the image, and that step changes nothing of the
\* coordinator; a request goes on to generateCoverWithPython only when the
\* cover is missing or a placeholder; and for a document whose cover was a
\* real image from the start no job is ever created, no entry is put in the
\* in-flight map or the backoff map, and its cover file is never written.
C28_RealCoverBypasses ==
  /\ [](\A i \in docs \ Uploads :
          KeptCover(i) = "real" =>
            /\ coverFile[i] = "real"
            /\ covergenInFlight[i] = NoJob
            /\ covergenFailures[i] = 0
            /\ \A j \in JobIds : jobs[j].id # i
            /\ \A r \in HandlerIds : handlers[r].id # i)
  /\ [][\A r \in HandlerIds :
          /\ (handlers[r] = NoHandler /\ handlers'[r] = Responded) =>
               /\ \E i \in docs : coverFile[i] = "real"
               /\ sent' = sent \cup {[status |-> 200, body |-> "cover"]}
               /\ UNCHANGED <<covergenActive, covergenWaiters, covergenInFlight,
                              covergenFailures, jobs, nJobs, microtasks, coverFile>>
          /\ (handlers[r] = NoHandler /\ handlers'[r].pc = "call") =>
               coverFile[handlers'[r].id] # "real"]_vars

\* every request was for a document with a real cover: each was answered with
\* the image and no job was ever created
C28_Witness ==
  /\ nHandlers = MaxCalls
  /\ \A r \in HandlerIds : handlers[r] = Responded
  /\ sent = {[status |-> 200, body |-> "cover"]}
  /\ nJobs = 0
  /\ covergenActive = 0 /\ covergenWaiters = <<>>
  /\ \A i \in AllIds : covergenInFlight[i] = NoJob /\ covergenFailures[i] = 0

\* C25: while REMOTE_DATA_DIR is not set or names the primary root, no call of
\* mirrorToRemote or removeRemotePaper takes a step, nothing is created at a
\* secondary location, and the request is answered in the step in which its
\* index mutation returns.
C25_NoRemoteNoAction ==
  /\ []((remoteDataDir = NoRemote \/ remoteDataDir = DATA_DIR) =>
          /\ \A o \in OpIds : mirrors[o] = NoMirror
          /\ remoteIndex = Absent)
  /\ [][(remoteDataDir = NoRemote \/ remoteDataDir = DATA_DIR) =>
          \A o \in OpIds :
            (ops[o].pc = "return" /\ ops'[o].pc # "return") =>
              Reply(ops[o].kind, ops[o].id, IF ops[o].kind = "create" THEN 201 ELSE 204)
                \in responses']_vars

\* the secondary root names the primary one: a document was uploaded and
\* deleted and both requests were answered
C25_Witness ==
  /\ remoteDataDir = DATA_DIR
  /\ \E i \in DirIds :
       /\ Reply("create", i, 201) \in responses
       /\ Reply("delete", i, 204) \in responses
       /\ dirs[i] = NoDir
  /\ \A o \in OpIds : ops[o].pc \in {"none", "done"}
  /\ indexFile = File(applied)

\* C26: the arrival of a request at one of the four routes with an id that is
\* not of the shape is answered 404 before the id is resolved, and changes
\* nothing else: not the index or its temporary file, no document directory,
\* no cover, nothing of the coordinator (no job, no process), nothing of the
\* secondary store.
C26_MalformedIdIsNotFound ==
  /\ []((called \in Routes /\ reqId \in MalformedIds) =>
          answer = "rejected" /\ touched = NoPath)
  /\ [][(pathVars' # pathVars /\ reqId' \in MalformedIds) =>
          /\ called' \in Routes
          /\ UNCHANGED <<coverVars, indexVars, storeVars, remoteVars, readVars, auxVars>>]_vars

\* a DELETE with the id "../../etc" was answered 404 while a renderer runs for
\* one document and the deletion of the other is about to write the index
C26_Witness ==
  /\ called = "delete"
  /\ reqId = DotDotEtc
  /\ answer = "rejected"
  /\ \E j \in JobIds : Running(j)
  /\ \E o \in OpIds : ops[o].kind = "delete" /\ ops[o].pc = "write"
  /\ docs # StoredIds

\* the place of the first piece of the input that, trimmed, is the tag
FirstPlace(raw, tag) ==
  LET pieces == Trimmed(SplitComma(raw, 1, <<>>))
  IN  CHOOSE k \in DOMAIN pieces :
        pieces[k] = tag /\ \A m \in 1..(k - 1) : pieces[m] # tag

\* C27 (as stated): the tags of a record are at most 12, each is trimmed and
\* not empty, no tag occurs twice, they stand in the order of the input, and
\* for the input "x, y" they are x and y.
C27_TagsAreOrderedSet ==
  tags.parsed =>
    /\ Len(tags.list) <= 12
    /\ \A k \in DOMAIN tags.list :
         /\ tags.list[k] # <<>>
         /\ Head(tags.list[k]) # " " /\ tags.list[k][Len(tags.list[k])] # " "
         /\ \E m \in DOMAIN Trimmed(SplitComma(rawTags, 1, <<>>)) :
              Trimmed(SplitComma(rawTags, 1, <<>>))[m] = tags.list[k]
    /\ \A k, m \in DOMAIN tags.list : k # m => tags.list[k] # tags.list[m]
    /\ \A k, m \in DOMAIN tags.list :
         k < m => FirstPlace(rawTags, tags.list[k]) < FirstPlace(rawTags, tags.list[m])
    /\ rawTags = <<"x", ",", " ", "y">> => tags.list = <<<<"x">>, <<"y">>>>

\* C29: isPlaceholderCover answers true exactly when the file can be read and
\* is byte-for-byte the static placeholder, or can be read and begins with the
\* PNG signature, has IHDR as its first chunk type, and declares width 1 and
\* height 1; it answers false for a missing path, a directory, a file that
\* cannot be opened, and every other file
DeclaresOneByOne(bytes) ==
  /\ Len(bytes) >= 24
  /\ SubSeq(bytes, 1, 8) = PNG_SIG
  /\ SubSeq(bytes, 13, 16) = IHDR
  /\ SubSeq(bytes, 17, 20) = <<0, 0, 0, 1>>
  /\ SubSeq(bytes, 21, 24) = <<0, 0, 0, 1>>

C29_PlaceholderExactly ==
  verdict.called =>
    (verdict.value <=> /\ probe.kind = "file"
                       /\ probe.readable
                       /\ probe.same \/ DeclaresOneByOne(probe.bytes))

C29_Witness ==
  /\ verdict.called
  /\ verdict.value
  /\ ~probe.same
  /\ probe.size = MaxFileLen

\* C30 (as stated): a create request that fails (a file is missing, the
\* content does not start with %PDF, the cover is no PNG, or a step throws an
\* I/O error) is answered with an error status, adds no record to the primary
\* index, starts no mirror, and none of its uploaded files is left in TMP_DIR
PostOps(u) == {o \in OpIds : ops[o].kind = "create" /\ ops[o].id = posts[u].id}

FailedPost(u) ==
  /\ posts[u].arrived
  /\ \/ posts[u].cause # "ok"
     \/ \E o \in PostOps(u) : ops[o].pc = "failed"

AnswersOf(u) ==
  IF posts[u].id = Ghost THEN {posts[u].status}
  ELSE {r.status : r \in {q \in responses : q.kind = "create" /\ q.id = posts[u].id}}

TmpFilesOf(u) == {f \in Fields : <<u, f>> \in tmpDir}

Indexed(items) == {items[k] : k \in 1..Len(items)}

FailsCleanly(u) ==
  /\ \E status \in {400, 500} : AnswersOf(u) = {status}
  /\ posts[u].id = Ghost \/ posts[u].id \notin Indexed(indexFile.items)
  /\ \A o \in PostOps(u) : mirrors[o] = NoMirror
  /\ posts[u].id = Ghost =>
       \A r \in responses : r.kind = "create" /\ r.id = Ghost => r.status \in {400, 500}

C30_FailedCreateLeavesNothing ==
  \A u \in 1..MaxUploads : FailedPost(u) => FailsCleanly(u) /\ TmpFilesOf(u) = {}

\* C30 (amended): ... and the only uploaded files of the request left in
\* TMP_DIR are those whose removal itself failed, which safeRemove ignores
C30_FailedCreateCleansUp ==
  /\ [](\A u \in 1..MaxUploads :
         FailedPost(u) => FailsCleanly(u) /\ TmpFilesOf(u) \subseteq posts[u].rmFailed)
  /\ [][\A u \in 1..MaxUploads :
          ~posts[u].arrived /\ posts'[u].arrived /\ posts'[u].cause # "ok" =>
            /\ indexFile' = indexFile
            /\ remoteIndex' = remoteIndex
            /\ mirrors' = mirrors
            /\ nOps' = nOps]_vars

\* a request failed at the rename of its content file while an earlier upload
\* is in the index and mirrored, and both its files were removed; another
\* failed at the write of the index
C30_Witness ==
  /\ posts[1].cause = "ok" /\ mirrors[1].pc = "done" /\ indexFile = File(<<1>>)
  /\ posts[2].cause = "pdf" /\ FailedPost(2) /\ posts[2].rmFailed = {}
  /\ TmpFilesOf(2) = {}

\* no index mutation is queued or running and no mirror call is running
Quiescent ==
  \A o \in OpIds :
    /\ ops[o].pc \in {"none", "done", "failed"}
    /\ ~Mirroring(o)
    /\ ops[o].pc = "done" => mirrors[o].pc \in {"done", "failed"}

\* the DELETE of the document has run to its end: the primary index was
\* written and removeRemotePaper has returned without an error
DeleteCompleted(i) ==
  \E o \in OpIds : ops[o].kind = "delete" /\ ops[o].id = i /\ mirrors[o].pc = "done"

\* C31 (as stated): once the deletion of a document has completed and nothing
\* is in progress, and no file-system call failed, the secondary index holds
\* no record of the document, however the deletion was interleaved with the
\* mirror call of its upload.
C31_DeleteWinsInSecondary ==
  \A i \in Ids :
    (faults = 0 /\ Quiescent /\ DeleteCompleted(i)) => i \notin Recorded(remoteIndex)

NoDuplicate(items) ==
  \A a, b \in DOMAIN items : a # b => items[a] # items[b]

\* C32: whatever calls of mirrorToRemote and removeRemotePaper were made, one
\* after the other, no two records of the secondary index share an id; the
\* write of mirrorToRemote leaves the record of its id at the head, once, with
\* the other records as they were and in their order, also when the id was
\* mirrored before; the write of removeRemotePaper leaves the other records
\* as they were.
C32_MirrorIsUpsert ==
  /\ [](NoDuplicate(remoteIndex.items))
  /\ [][\A o \in OpIds :
          (mirrors[o].pc = "write" /\ mirrors'[o].pc = "done") =>
            IF ops[o].kind = "create"
              THEN /\ remoteIndex'.items # <<>>
                   /\ Head(remoteIndex'.items) = ops[o].id
                   /\ Tail(remoteIndex'.items) = Without(remoteIndex.items, ops[o].id)
              ELSE remoteIndex'.items = Without(remoteIndex.items, ops[o].id)]_vars

\* document 1 was mirrored, then document 2, then document 1 again: its
\* record moved to the head and is there once
C32_Witness ==
  /\ ops[1].kind = "create" /\ ops[1].id = 1 /\ mirrors[1].pc = "done"
  /\ ops[2].kind = "create" /\ ops[2].id = 2 /\ mirrors[2].pc = "done"
  /\ ops[3].kind = "create" /\ ops[3].id = 1 /\ mirrors[3].pc = "done"
  /\ remoteIndex = File(<<1, 2>>)

\* C33 (as stated): while uploads and deletions run their mirror calls
\* concurrently, the secondary index file always exists and holds a complete
\* array.
C33_SecondaryIndexNeverDeleted == remoteIndex.state = "complete"

\* C34: a call of withIndexLock whose function threw has released the lock;
\* its error is answered to its own request only and changes no other call;
\* the calls behind it enter in the order they were made; and every call
\* that waits eventually runs its function, as long as the steps of the
\* functions before it return or throw.
C34_ThrowReleasesLock ==
  /\ [](\A o \in OpIds : Over(o) => o \in released)
  /\ [](\A o, q \in OpIds : (q < o /\ (InSection(o) \/ Over(o))) => Over(q))
  /\ [][\A o \in OpIds :
          (ops[o].pc = "throw" /\ ops'[o].pc = "failed") =>
            /\ responses' = responses \cup {Reply(ops[o].kind, ops[o].id, 500)}
            /\ \A q \in OpIds \ {o} : ops'[q] = ops[q]]_vars
  /\ \A o \in OpIds : []<>(ops[o].pc # "queued")

\* the function of the first call threw, the second call ran behind it and
\* returned
C34_Witness ==
  /\ ops[1].pc = "failed"
  /\ ops[2].pc = "done"
  /\ Reply(ops[1].kind, ops[1].id, 500) \in responses
  /\ Reply(ops[2].kind, ops[2].id, 500) \notin responses

\* C35 (as stated): in every state, between the steps of uploads and
\* deletions and after a deletion whose index write failed too, every id the
\* primary index lists has its document directory with the content file, the
\* cover and the metadata file, so that GET /papers/:id finds its metadata.
C35_ListedIdsHaveDirectories ==
  \A i \in Recorded(indexFile) : dirs[i] = Dir(Files)

\* C36: covergenActive is the number of jobs for which covergenAcquire has
\* returned and covergenRelease was not yet called; it is never negative; it
\* is 0 when no job is in flight; and every call of covergenRelease finds
\* it at 1 or more, so that Math.max(0, ...) never changes the result.
C36_ActiveCountsHolders ==
  /\ [](/\ covergenActive = Cardinality({j \in JobIds : HoldsSlot(j)})
        /\ covergenActive >= 0
        /\ (\A i \in Ids : covergenInFlight[i] = NoJob) => covergenActive = 0)
  /\ [][\A j \in JobIds :
          (jobs[j].pc = "settled" /\ jobs'[j].pc = "released") =>
            covergenActive - 1 >= 0 /\ covergenActive' = covergenActive - 1]_vars

\* two jobs hold the two slots, and a job that released before them is over
C36_Witness ==
  /\ covergenActive = 2
  /\ Cardinality({j \in JobIds : HoldsSlot(j)}) = 2
  /\ \E j \in JobIds : jobs[j].pc = "done"

\* the upload of the document has not been answered yet: its call of
\* withIndexLock is queued or running
CreateInProgress(i) ==
  \E o \in OpIds : ops[o].kind = "create" /\ ops[o].id = i /\ ~Over(o)

\* C37 (as stated): every directory under the papers root belongs to an id
\* the index lists or to an upload still in progress; an upload that failed
\* after its directory was made leaves no directory behind.
C37_NoOrphanDirectory ==
  \A i \in DirIds :
    dirs[i].exists => i \in Recorded(indexFile) \/ CreateInProgress(i)

\* the records of the index under a file name
NamedCount(file, name) ==
  Cardinality({k \in DOMAIN file.items : file.items[k].originalFilename = name})

\* the name is that of a PDF in a seed directory that exists
Seeded(name) ==
  \E d \in DOMAIN seedDirs :
    /\ seedDirs[d].exists
    /\ \E k \in DOMAIN seedDirs[d].files : seedDirs[d].files[k] = name
    /\ name \in {APdf, BPdf}

Readable(file) == IF file.state = "complete" THEN file ELSE File(<<>>)

\* C38: a run of the import adds no record for a file name the index already
\* has a record of, adds exactly one record for each other PDF name found in
\* the seed directories, however many directories hold it, and none for other
\* files; a second run over the same directories leaves the index as the
\* first run wrote it.
C38_ImportIsIdempotent ==
  [][nRuns' = nRuns + 1 =>
       /\ \A name \in SeedNames :
            NamedCount(seedIndex', name) =
              IF NamedCount(Readable(seedIndex), name) > 0
                THEN NamedCount(Readable(seedIndex), name)
              ELSE IF Seeded(name) THEN 1 ELSE 0
       /\ nRuns >= 1 => seedIndex' = seedIndex]_vars

\* the second run is over; the first had imported a.pdf, which is in all
\* three directories, once, and b.PDF, and left the text file alone
C38_Witness ==
  /\ nRuns = 2
  /\ \A d \in DOMAIN seedDirs :
       /\ seedDirs[d].exists
       /\ \E k \in DOMAIN seedDirs[d].files : seedDirs[d].files[k] = APdf
  /\ Seeded(BPdf)
  /\ \E k \in DOMAIN seedDirs[1].files : seedDirs[1].files[k] = Notes
  /\ Len(seedIndex.items) = 2
  /\ nSeedIds = 2

====
